---- MODULE Spec2Model ----
(***************************************************************************)
(* Behavioural model of the vhsnunzip emulation pipeline                   *)
(*   data_source -> pre_decoder -> decoder -> cmd_gen_1 -> cmd_gen_2       *)
(*   -> datapath -> verifier                                               *)
(* (tests/emu/operators.py, tests/emu/streams.py).  Every stage is a       *)
(* Python generator; one action of the model runs one stage from the point *)
(* where it is resumed to the point where it is suspended again (a yield,  *)
(* or a next() on its upstream).  The chain is pull driven: a stage runs   *)
(* only while everything downstream of it is waiting for its output.       *)
(***************************************************************************)
EXTENDS Integers, Sequences, FiniteSets, TLC

VARIABLES
    chunks,   \* the compressed chunks handed to data_source (never changes)
    src,      \* data_source: position in chunks; ended: it has returned
    cs,       \* CompressedStreamSingle in flight (at most one)
    pre,      \* pre_decoder / parallelize state
    cd,       \* CompressedStreamDouble in flight
    dec,      \* decoder state; at, pull: where its last iteration began to
              \* parse and whether it pulled a line pair (observation only)
    el,       \* ElementStream in flight
    cg1,      \* cmd_gen_1 state; parts, sent: the partial commands and the copy
              \* bytes emitted for the element it holds (observation only)
    c1,       \* PartialCommandStream in flight
    cg2,      \* cmd_gen_2 state; lt_was: the lt_cnt its last iteration began
              \* with (observation only)
    cm,       \* CommandStream in flight
    dpath,    \* datapath state
    de,       \* DecompressedStream in flight
    out,      \* the DecompressedStream records the consumer has received
    stat,     \* per stream: records, ld_pop records and last records emitted
    ver,      \* verifier state; seen: the transfers it has taken from its
              \* data stream (observation only)
    err       \* "none", or the exception that ended the pipeline

vars == <<chunks, src, cs, pre, cd, dec, el, cg1, c1, cg2, cm, dpath, de, out, stat, ver, err>>

-----------------------------------------------------------------------------
(* Program constants *)

WI == 8
WB == 3
SRL_DEPTH == 32
LT_LINES == 8192

(* Bounds of the model *)

MaxElems == 3
MaxElems2 == 2

-----------------------------------------------------------------------------
(* Arithmetic on Python integers *)

Min(a, b) == IF a < b THEN a ELSE b
Max(a, b) == IF a > b THEN a ELSE b

\* x & (2**n - 1) for any integer x is x modulo 2**n
Pow2(n) == IF n = 0 THEN 1 ELSE IF n = 1 THEN 2 ELSE IF n = 2 THEN 4 ELSE IF n = 3 THEN 8
           ELSE IF n = 4 THEN 16 ELSE IF n = 5 THEN 32 ELSE IF n = 6 THEN 64
           ELSE IF n = 12 THEN 4096 ELSE IF n = 16 THEN 65536 ELSE 2^n

RECURSIVE Xor(_, _)
Xor(a, b) == IF a = 0 THEN b ELSE IF b = 0 THEN a
             ELSE (((a % 2) + (b % 2)) % 2) + 2 * Xor(a \div 2, b \div 2)

is_unsigned(value, bits) == value >= 0 /\ value < Pow2(bits)

ZeroLine == [i \in 0..(WI-1) |-> 0]

\* tuple concatenation of two WI-byte lines
Concat(a, b) == [i \in 0..(2*WI-1) |-> IF i < WI THEN a[i] ELSE b[i - WI]]

-----------------------------------------------------------------------------
(* Raw Snappy chunks fed to the pipeline.  An element is a literal of n    *)
(* bytes, a short copy (tag 01) or a medium copy (tag 10).                 *)

Lit(n)     == [t |-> "L", n |-> n, off |-> 0]
Short(o,n) == [t |-> "S", n |-> n, off |-> o]
Med(o,n)   == [t |-> "M", n |-> n, off |-> o]

\* literal payload: distinct for 256 consecutive output positions
LitByte(salt, p) == (salt + 7 * p) % 256

RECURSIVE Varint(_)
Varint(n) == IF n < 128 THEN <<n>> ELSE <<128 + (n % 128)>> \o Varint(n \div 128)

LitHeader(n) == IF n <= 60 THEN <<4 * (n - 1)>>
                ELSE IF n <= 256 THEN <<240, n - 1>>
                ELSE <<244, (n - 1) % 256, (n - 1) \div 256>>

EncodeElem(e, tot, salt) ==
    IF e.t = "L" THEN LitHeader(e.n) \o [i \in 1..e.n |-> LitByte(salt, tot + i - 1)]
    ELSE IF e.t = "S" THEN <<1 + 4 * (e.n - 4) + 32 * (e.off \div 256), e.off % 256>>
    ELSE <<2 + 4 * (e.n - 1), e.off % 256, e.off \div 256>>

RECURSIVE TotalLen(_)
TotalLen(es) == IF es = <<>> THEN 0 ELSE es[1].n + TotalLen(Tail(es))

RECURSIVE EncodeElems(_, _, _)
EncodeElems(es, tot, salt) ==
    IF es = <<>> THEN <<>>
    ELSE EncodeElem(es[1], tot, salt) \o EncodeElems(Tail(es), tot + es[1].n, salt)

EncodeChunk(es, salt) == Varint(TotalLen(es)) \o EncodeElems(es, 0, salt)

\* every copy offset lies between 1 and the bytes produced so far
WellFormedNext(es, e) == e.t = "L" \/ (1 <= e.off /\ e.off <= TotalLen(es))

LitLens == {1, 3, 7, 8, 12}
Copies  == {Short(3, 8), Short(8, 11), Med(2, 5), Med(7, 20), Med(1, 17), Med(9, 1)}
Alphabet == {Lit(n) : n \in LitLens} \cup Copies

RECURSIVE ElemSeqs(_)
ElemSeqs(n) ==
    IF n = 0 THEN {<<>>}
    ELSE LET S == ElemSeqs(n - 1)
         IN  S \cup {Append(s, e) : s \in {q \in S : Len(q) = n - 1},
                                    e \in {a \in Alphabet : TRUE}}

WellFormed(es) == \A i \in 1..Len(es) : WellFormedNext(SubSeq(es, 1, i - 1), es[i])

\* chunks that fill more than SRL_DEPTH output lines, so that copies reach
\* long-term memory, and literals with 2- and 3-byte headers, one of them
\* across the line boundary
LongSeqs ==
    { <<Lit(61), Med(61, 3)>>,
      <<Lit(2), Short(2, 5), Lit(257)>>,
      <<Lit(257), Med(257, 10)>>,
      <<Lit(262), Med(259, 64), Short(300, 11)>>,
      <<Lit(5), Med(1, 64), Med(1, 64), Med(1, 64), Med(1, 64), Med(1, 64), Med(320, 12)>>,
      <<Lit(7), Med(7, 64), Med(64, 64), Med(64, 64), Med(64, 64), Med(64, 64), Med(261, 30), Lit(3)>> }

FirstSeqs ==
    { <<>>, <<Lit(3)>>, <<Lit(8)>>, <<Lit(1), Med(1, 17)>> }

Salt(k) == 16 + 101 * (k - 1)

Inputs ==
    {<<EncodeChunk(es, Salt(1))>> : es \in {s \in ElemSeqs(MaxElems) : WellFormed(s)} \cup LongSeqs}
    \cup
    {<<EncodeChunk(a, Salt(1)), EncodeChunk(b, Salt(2))>> :
        a \in FirstSeqs, b \in {s \in ElemSeqs(MaxElems2) : WellFormed(s)}}

\* chunks put between two runs of the same chunk: nothing, a short literal,
\* a run-length copy, and one that fills short-term and long-term memory
BetweenSeqs ==
    { <<>>, <<Lit(3)>>, <<Lit(1), Med(1, 17)>>, <<Lit(257), Med(257, 10)>> }

\* the same chunk first and again after other chunks
RepeatInputs ==
    {<<EncodeChunk(b, Salt(1)), EncodeChunk(a, Salt(2)), EncodeChunk(b, Salt(1))>> :
        a \in BetweenSeqs, b \in {s \in ElemSeqs(MaxElems2) : WellFormed(s)} \cup LongSeqs}

\* the length n written as a varint of h bytes: 7-bit groups, low group
\* first, bit 7 set on every byte but the last (groups of zero pad it)
RECURSIVE PadVarint(_, _)
PadVarint(n, h) == IF h = 1 THEN <<n % 128>>
                   ELSE <<128 + (n % 128)>> \o PadVarint(n \div 128, h - 1)

EncodeChunkH(es, salt, h) == PadVarint(TotalLen(es), h) \o EncodeElems(es, 0, salt)

\* chunks whose length varint takes 1 to 5 bytes, alone and after another
\* chunk
VarintInputs ==
    {<<EncodeChunkH(es, Salt(1), h)>> :
        es \in {s \in ElemSeqs(MaxElems2) : WellFormed(s)}, h \in 1..5}
    \cup
    {<<EncodeChunk(a, Salt(1)), EncodeChunkH(b, Salt(2), h)>> :
        a \in {<<>>, <<Lit(3)>>}, b \in {<<Lit(3)>>, <<Lit(8), Med(2, 5)>>}, h \in 1..5}

\* what follows the well-formed elements of a malformed chunk: an element
\* with tag 11, a literal header with length code 62, one with code 63
BadTails == { <<7, 1, 0, 0, 0>>, <<248, 1, 2, 3>>, <<252, 1, 2, 3>> }

\* the well-formed inputs, and chunks that go on with a malformed element
\* after well-formed ones
MalformedInputs ==
    Inputs \cup
    {<<EncodeChunk(es, Salt(1)) \o bad>> :
        es \in {s \in ElemSeqs(MaxElems2) : WellFormed(s)}, bad \in BadTails}

\* chunks with a copy whose offset reaches back beyond the bytes produced
\* before it in the chunk, alone and after a chunk that left bytes in the
\* memories
UnderflowInputs ==
    {<<EncodeChunk(es, Salt(1))>> : es \in {s \in ElemSeqs(MaxElems2) : ~WellFormed(s)}}
    \cup
    {<<EncodeChunk(a, Salt(1)), EncodeChunk(b, Salt(2))>> :
        a \in {<<Lit(8)>>, <<Lit(257), Med(257, 10)>>},
        b \in {<<Med(2, 5)>>, <<Lit(1), Short(3, 8)>>, <<Lit(3), Med(7, 20)>>, <<Med(9, 1)>>}}

-----------------------------------------------------------------------------
(* Reference decoding of a raw Snappy chunk (format of the compressed      *)
(* input): what the chunk decompresses to.                                 *)

RECURSIVE SkipVarint(_)
SkipVarint(bs) == IF bs = <<>> THEN <<>>
                  ELSE IF bs[1] >= 128 THEN SkipVarint(Tail(bs)) ELSE Tail(bs)

RECURSIVE CopyBytes(_, _, _)
CopyBytes(o, off, n) == IF n = 0 THEN o
                        ELSE CopyBytes(Append(o, o[Len(o) + 1 - off]), off, n - 1)

RECURSIVE RefElems(_, _)
RefElems(bs, o) ==
    IF bs = <<>> THEN o
    ELSE LET b == bs[1]
             t == b \div 4
         IN  IF b % 4 = 0 THEN
                 LET hd == IF t < 60 THEN 1 ELSE IF t = 60 THEN 2 ELSE 3
                     n  == IF t < 60 THEN t + 1
                           ELSE IF t = 60 THEN bs[2] + 1
                           ELSE bs[2] + 256 * bs[3] + 1
                 IN  RefElems(SubSeq(bs, hd + n + 1, Len(bs)), o \o SubSeq(bs, hd + 1, hd + n))
             ELSE IF b % 4 = 1 THEN
                 RefElems(SubSeq(bs, 3, Len(bs)),
                          CopyBytes(o, ((b \div 32) % 8) * 256 + bs[2], ((b \div 4) % 8) + 4))
             ELSE
                 RefElems(SubSeq(bs, 4, Len(bs)),
                          CopyBytes(o, bs[2] + 256 * bs[3], ((b \div 4) % 64) + 1))

RefDecode(chunk) == RefElems(SkipVarint(chunk), <<>>)

-----------------------------------------------------------------------------
(* Stream records (tests/emu/streams.py).  Each constructor is modelled by *)
(* the name of the first assertion it fails, or "none".  Field ck is not   *)
(* part of the program: it names the input chunk a record originates from. *)

CompressedStreamSingle(data, last, endi, ck) ==
    [data |-> data, last |-> last, endi |-> endi, ck |-> ck]

CompressedStreamSingle_assert(r) ==
    IF ~is_unsigned(r.endi, WB) THEN "AssertionError: is_unsigned(cs.endi, WB)"
    ELSE IF ~(r.endi = WI - 1 \/ r.last) THEN "AssertionError: cs.endi == WI-1 or cs.last"
    ELSE "none"

CompressedStreamDouble(data, first, start, last, endi, py_endi, ck) ==
    [data |-> data, first |-> first, start |-> start, last |-> last, endi |-> endi,
     py_endi |-> py_endi, ck |-> ck]

CompressedStreamDouble_assert(r) ==
    IF ~is_unsigned(r.start, 2) THEN "AssertionError: is_unsigned(cd.start, 2)"
    ELSE IF ~is_unsigned(r.endi, WB) THEN "AssertionError: is_unsigned(cd.endi, WB)"
    ELSE IF ~(r.endi = WI - 1 \/ r.last) THEN "AssertionError: cd.endi == WI-1 or cd.last"
    ELSE "none"

ElementStream(cp_val, cp_off, cp_len, li_val, li_off, li_len, ld_pop, last, py_data, ck) ==
    [cp_val |-> cp_val, cp_off |-> cp_off, cp_len |-> cp_len, li_val |-> li_val,
     li_off |-> li_off, li_len |-> li_len, ld_pop |-> ld_pop, last |-> last,
     py_data |-> py_data, ck |-> ck]

ElementStream_assert(r) ==
    IF ~is_unsigned(r.cp_off, 16) THEN "AssertionError: is_unsigned(el.cp_off, 16)"
    ELSE IF ~is_unsigned(r.cp_len, 6) THEN "AssertionError: is_unsigned(el.cp_len, 6)"
    ELSE IF ~is_unsigned(r.li_off, WB + 1) THEN "AssertionError: is_unsigned(el.li_off, WB+1)"
    ELSE IF ~is_unsigned(r.li_len, 16) THEN "AssertionError: is_unsigned(el.li_len, 16)"
    ELSE IF ~(r.ld_pop \/ ~r.last) THEN "AssertionError: el.ld_pop or not el.last"
    ELSE "none"

\* the class itself is not among the sources; cmd_gen_1 constructs it with
\* these nine fields
PartialCommandStream(cp_off, cp_len, cp_rle, li_val, li_off, li_len, ld_pop, last, py_data, ck) ==
    [cp_off |-> cp_off, cp_len |-> cp_len, cp_rle |-> cp_rle, li_val |-> li_val,
     li_off |-> li_off, li_len |-> li_len, ld_pop |-> ld_pop, last |-> last,
     py_data |-> py_data, ck |-> ck]

CommandStream(lt_val, lt_adev, lt_adod, lt_swap, st_addr, cp_rol, cp_rle, cp_end, li_rol, li_end, ld_pop, last, py_data, py_start, ck) ==
    [lt_val |-> lt_val, lt_adev |-> lt_adev, lt_adod |-> lt_adod, lt_swap |-> lt_swap,
     st_addr |-> st_addr, cp_rol |-> cp_rol, cp_rle |-> cp_rle, cp_end |-> cp_end,
     li_rol |-> li_rol, li_end |-> li_end, ld_pop |-> ld_pop, last |-> last,
     py_data |-> py_data, py_start |-> py_start, ck |-> ck]

CommandStream_assert(r) ==
    IF ~is_unsigned(r.lt_adev, 12) THEN "AssertionError: is_unsigned(cm.lt_adev, 12)"
    ELSE IF ~is_unsigned(r.lt_adod, 12) THEN "AssertionError: is_unsigned(cm.lt_adod, 12)"
    ELSE IF ~is_unsigned(r.st_addr, 5) THEN "AssertionError: is_unsigned(cm.st_addr, 5)"
    ELSE IF ~is_unsigned(r.cp_rol, WB + 1) THEN "AssertionError: is_unsigned(cm.cp_rol, WB+1)"
    ELSE IF ~is_unsigned(r.cp_end, WB + 1) THEN "AssertionError: is_unsigned(cm.cp_end, WB+1)"
    ELSE IF ~is_unsigned(r.li_rol, WB + 1) THEN "AssertionError: is_unsigned(cm.li_rol, WB+1)"
    ELSE IF ~is_unsigned(r.li_end, WB + 1) THEN "AssertionError: is_unsigned(cm.li_end, WB+1)"
    ELSE IF ~(r.ld_pop \/ ~r.last) THEN "AssertionError: cm.ld_pop or not cm.last"
    ELSE IF ~(r.li_end <= WI \/ ~r.last) THEN "AssertionError: cm.li_end <= WI or not cm.last"
    ELSE "none"

DecompressedStream(data, last, cnt, ck) ==
    [data |-> data, last |-> last, cnt |-> cnt, ck |-> ck]

DecompressedStream_assert(r) ==
    IF ~is_unsigned(r.cnt, WB + 1) THEN "AssertionError: is_unsigned(de.cnt, WB+1)"
    ELSE IF ~(r.cnt = WI \/ r.last) THEN "AssertionError: de.cnt == WI or de.last"
    ELSE "none"

\* a stream's counters after one more record r has been emitted on it
Count(s, name, r, pop) ==
    [s EXCEPT ![name] = [n    |-> @.n + 1,
                         pop  |-> @.pop + (IF pop THEN 1 ELSE 0),
                         last |-> @.last + (IF r.last THEN 1 ELSE 0)]]

-----------------------------------------------------------------------------
(* Who is waiting for whom.  The consumer pulls the datapath; a stage is   *)
(* resumed only when the stage after it has called next() on it.           *)

cm_demand == de = <<>> /\ dpath.pc = "top" /\ cm = <<>>
c1_demand == cm_demand /\ ~cg2.c1h_valid /\ c1 = <<>>
el_demand == c1_demand /\ ~cg1.elh_valid /\ el = <<>>
cd_demand == el_demand /\ ~dec.cdh_valid /\ cd = <<>>
\* faulty variant: parallelize pulls a line before every pair it yields
pre_needs_input_always == TRUE

\* parallelize yields (cur, zero line) without pulling when it was suspended
\* right after yielding (prev, cur) with cur.last
pre_needs_input == ~(pre.pc = "y1" /\ pre.cur.last)
cs_demand == cd_demand /\ pre_needs_input /\ cs = <<>>

-----------------------------------------------------------------------------
(* data_source *)

\* the chunk at or after k that has a line to give (range(0, 0, WI) is empty)
RECURSIVE NextChunk(_, _)
NextChunk(cks, k) == IF k > Len(cks) \/ Len(cks[k]) > 0 THEN k ELSE NextChunk(cks, k + 1)

\* faulty variant: the line that ends exactly at the end of the chunk is not
\* marked last
SourceLine_short(chunk, offs) ==
    LET n    == Min(WI, Len(chunk) - offs)
        data == [i \in 0..(WI-1) |-> IF i < n THEN chunk[offs + i + 1] ELSE 0]
    IN  [data |-> data, endi |-> n - 1, last |-> (offs + WI > Len(chunk))]

SourceLine(chunk, offs) ==
    LET n    == Min(WI, Len(chunk) - offs)
        data == [i \in 0..(WI-1) |-> IF i < n THEN chunk[offs + i + 1] ELSE 0]
    IN  [data |-> data, endi |-> n - 1, last |-> (offs + WI >= Len(chunk))]

data_source ==
    /\ err = "none"
    /\ cs_demand
    /\ src.k <= Len(chunks)
    /\ LET ln == SourceLine(chunks[src.k], src.offs)
           r  == CompressedStreamSingle(ln.data, ln.last, ln.endi, src.k)
           a  == CompressedStreamSingle_assert(r)
       IN  IF a # "none"
           THEN /\ err' = a
                /\ UNCHANGED <<src, cs, stat>>
           ELSE /\ cs' = <<r>>
                /\ src' = IF ln.last
                          THEN [k |-> NextChunk(chunks, src.k + 1), offs |-> 0, ended |-> FALSE]
                          ELSE [k |-> src.k, offs |-> src.offs + WI, ended |-> FALSE]
                /\ stat' = Count(stat, "cs", r, FALSE)
                /\ err' = err
    /\ UNCHANGED <<ver, chunks, pre, cd, dec, el, cg1, c1, cg2, cm, dpath, de, out>>

-----------------------------------------------------------------------------
(* pre_decoder, with its inner generator parallelize *)

\* index after the chunk's length varint: the for/break loop over cur.data
RECURSIVE VarintScan(_, _)
VarintScan(data, start) ==
    IF data[start] < 128 THEN start
    ELSE IF start = WI - 1 THEN start
    ELSE VarintScan(data, start + 1)

\* faulty variant: the index of the varint's final byte, not the one after it
PreStart_final(data) == VarintScan(data, 0)

PreStart(data) == VarintScan(data, 0) + 1

\* faulty variant: the two halves of the line pair are swapped
PreDouble_swap(p, cur, nxt) ==
    LET first   == ~p.busy
        start   == IF first THEN PreStart(cur.data) ELSE p.start
        py_endi == IF cur.last THEN cur.endi
                   ELSE IF nxt.last THEN WI + nxt.endi
                   ELSE WI * 2 - 1
    IN  [busy |-> ~cur.last, start |-> start,
         rec  |-> CompressedStreamDouble(Concat(nxt.data, cur.data), first, start,
                                         cur.last, cur.endi, py_endi, cur.ck)]

\* the body of pre_decoder's loop for one (cur, nxt) pair
PreDouble(p, cur, nxt) ==
    LET first   == ~p.busy
        start   == IF first THEN PreStart(cur.data) ELSE p.start
        py_endi == IF cur.last THEN cur.endi
                   ELSE IF nxt.last THEN WI + nxt.endi
                   ELSE WI * 2 - 1
    IN  [busy |-> ~cur.last, start |-> start,
         rec  |-> CompressedStreamDouble(Concat(cur.data, nxt.data), first, start,
                                         cur.last, cur.endi, py_endi, cur.ck)]

ParallelizePad == CompressedStreamSingle(ZeroLine, FALSE, WI - 1, 0)

\* parallelize from where it is resumed to its next yield or its next pull:
\* the pair it yields (none: it goes back to pull another line) and its state
Parallelize(p, inp) ==
    IF p.pc = "y1" /\ p.cur.last
    THEN [pair |-> <<<<p.cur, ParallelizePad>>>>, pc |-> "y2", prev |-> p.prev, cur |-> p.cur,
          pulled |-> FALSE]
    ELSE LET prev == IF p.pc = "y1" THEN <<p.cur>>
                     ELSE IF p.pc = "y2" THEN <<>>
                     ELSE p.prev
             cur  == Head(inp)
         IN  IF prev # <<>>
             THEN [pair |-> <<<<prev[1], cur>>>>, pc |-> "y1", prev |-> prev, cur |-> cur,
                   pulled |-> TRUE]
             ELSE IF cur.last
             THEN [pair |-> <<<<cur, ParallelizePad>>>>, pc |-> "y2", prev |-> prev, cur |-> cur,
                   pulled |-> TRUE]
             ELSE [pair |-> <<>>, pc |-> "top", prev |-> <<cur>>, cur |-> cur,
                   pulled |-> TRUE]

pre_decoder ==
    /\ err = "none"
    /\ cd_demand
    /\ (~pre_needs_input \/ cs # <<>>)
    /\ LET pz == Parallelize(pre, cs)
       IN  /\ cs' = IF pz.pulled THEN <<>> ELSE cs
           /\ IF pz.pair = <<>>
              THEN /\ pre' = [pre EXCEPT !.pc = pz.pc, !.prev = pz.prev, !.cur = pz.cur]
                   /\ UNCHANGED <<cd, stat, err>>
              ELSE LET d == PreDouble(pre, pz.pair[1][1], pz.pair[1][2])
                       a == CompressedStreamDouble_assert(d.rec)
                   IN  /\ pre' = [pc |-> pz.pc, prev |-> pz.prev, cur |-> pz.cur,
                                  busy |-> d.busy, start |-> d.start]
                       /\ IF a # "none"
                          THEN /\ err' = a
                               /\ UNCHANGED <<cd, stat>>
                          ELSE /\ cd' = <<d.rec>>
                               /\ stat' = Count(stat, "cd", d.rec, FALSE)
                               /\ err' = err
    /\ UNCHANGED <<ver, chunks, src, dec, el, cg1, c1, cg2, cm, dpath, de, out>>

-----------------------------------------------------------------------------
(* decoder *)

\* faulty variant: last taken from the line alone, also on elements that
\* leave the parse position inside the line
DecoderFlags_line(pop, cdh_last) == [ld_pop |-> pop, last |-> cdh_last]

\* the flags of the element: ld_pop when the parse position left the line,
\* last when that line was the last of its chunk
DecoderFlags(pop, cdh_last) == [ld_pop |-> pop, last |-> pop /\ cdh_last]

\* faulty variant: the length code is judged whether or not a literal
\* header is there
LiSnap_any(code, li_val) == code > 61

\* a literal header with a length code above 61 is rejected
LiSnap(code, li_val) == code > 61 /\ li_val

\* faulty variant: the low byte of the offset is left out
ShortOff_high(b0, b1) == ((b0 \div 32) % 8) * 256

\* faulty variant: the three high bits of the offset are left out
ShortOff_low(b0, b1) == b1

\* the offset of a short copy: 3 bits of the tag byte and the byte after it
ShortOff(b0, b1) == ((b0 \div 32) % 8) * 256 + b1

\* faulty variant: a literal header is taken wherever the tag bits are 00,
\* also past the last byte of the line
LiVal_tag(off, endi, tag) == tag = 0

\* a literal header is there when the parse position is inside the line
\* and the tag bits are 00
LiVal(off, endi, tag) == off <= endi /\ tag = 0

\* one iteration of decoder's loop on the line pair cdh, entered with the
\* parse position off
DecoderStep(off, cdh) ==
    LET data   == cdh.data
        ofi    == off % WI
        tag    == data[ofi] % 4
        nocopy == off > cdh.endi \/ tag = 0
        snap1  == ~nocopy /\ tag = 3
        cp_val == ~nocopy
        cp_off == IF nocopy THEN 0
                  ELSE IF tag = 1 THEN ShortOff(data[ofi], data[ofi + 1])
                  ELSE data[ofi + 1] + data[ofi + 2] * 256
        cp_len == IF nocopy THEN 0
                  ELSE IF tag = 1 THEN ((data[ofi] \div 4) % 8) + 3
                  ELSE (data[ofi] \div 4) % 64
        off2   == IF nocopy THEN off ELSE IF tag = 1 THEN off + 2 ELSE off + 3
        \* literal header
        ofj    == off2 % WI
        li_val == LiVal(off2, cdh.endi, data[ofj] % 4)
        code   == data[ofj] \div 4
        li_len == IF code = 60 THEN data[ofj + 1]
                  ELSE IF code = 61 THEN data[ofj + 2] * 256 + data[ofj + 1]
                  ELSE code
        li_hdlen == IF code = 60 THEN 2 ELSE IF code = 61 THEN 3 ELSE 1
        snap2  == LiSnap(code, li_val)
        li_off == IF li_val THEN off2 + li_hdlen ELSE 0
        off3   == IF li_val THEN off2 + li_hdlen + li_len + 1 ELSE off2
        pop    == off3 > cdh.endi
        fl     == DecoderFlags(pop, cdh.last)
    IN  [raise |-> IF snap1 \/ snap2 THEN "ValueError: oh_snap" ELSE "none",
         off   |-> IF pop THEN off3 - WI ELSE off3,
         cdh_valid |-> ~pop,
         reads |-> (IF off > cdh.endi THEN {} ELSE {ofi})
                   \cup (IF nocopy \/ tag = 3 THEN {}
                         ELSE IF tag = 1 THEN {ofi + 1} ELSE {ofi + 1, ofi + 2})
                   \cup {ofj}
                   \cup (IF code = 60 THEN {ofj + 1}
                         ELSE IF code = 61 THEN {ofj + 1, ofj + 2} ELSE {}),
         rec   |-> ElementStream(cp_val, cp_off, cp_len, li_val, li_off, li_len,
                                 fl.ld_pop, fl.last, data, cdh.ck)]

decoder ==
    /\ err = "none"
    /\ el_demand
    /\ (dec.cdh_valid \/ cd # <<>>)
    /\ LET pull == ~dec.cdh_valid
           cdh  == IF pull THEN Head(cd) ELSE dec.cdh
           off  == IF pull /\ cdh.first THEN cdh.start ELSE dec.off
           d    == DecoderStep(off, cdh)
           a    == IF d.raise # "none" THEN d.raise ELSE ElementStream_assert(d.rec)
       IN  /\ cd' = IF pull THEN <<>> ELSE cd
           /\ IF a # "none"
              THEN /\ err' = a
                   /\ UNCHANGED <<dec, el, stat>>
              ELSE /\ dec' = [off |-> d.off, cdh_valid |-> d.cdh_valid, cdh |-> cdh,
                              at |-> off, pull |-> pull]
                   /\ el' = <<d.rec>>
                   /\ stat' = Count(stat, "el", d.rec, d.rec.ld_pop)
                   /\ err' = err
    /\ UNCHANGED <<ver, chunks, src, cs, pre, cg1, c1, cg2, cm, dpath, out>>
    /\ UNCHANGED de

-----------------------------------------------------------------------------
(* cmd_gen_1 *)

\* faulty variant: the pop goes out with every partial command of the element
PopForward_always(ld_pop, advance) == ld_pop

\* faulty variant: the pop of an element goes out with none of its partial
\* commands
PopForward_never(ld_pop, advance) == FALSE

\* the literal-line pop of an element goes out with its final partial command
PopForward(ld_pop, advance) == ld_pop /\ advance

\* faulty variant: the whole remainder of the copy goes into one partial
\* command
CpChunk_all(cp_rem) == cp_rem

\* faulty variant: a partial command takes up to WI + 1 bytes
CpChunk_wide(cp_rem) == Min(cp_rem, WI)

\* the diminished-one number of copy bytes of a partial command, before the
\* cap by the copy offset
CpChunk(cp_rem) == Min(cp_rem, WI - 1)

\* faulty variant: the copy length is taken from every element
CpLoad_any(cp_val, cp_len, cp_rem) == cp_len

\* the remaining copy length when an element is loaded: that of the element
\* if it has a copy
CpLoad(cp_val, cp_len, cp_rem) == IF cp_val THEN cp_len ELSE cp_rem

\* faulty variant: no run-length acceleration
CpRle_never(off) == FALSE

\* run-length acceleration applies to a copy offset of 1 (or none)
CpRle(off) == off <= 1

\* faulty variant: the offset grows fourfold after a capped partial command
CpDouble_quad(cap, off) == IF cap THEN 4 * off ELSE off

\* the copy offset of the next partial command: doubled after one that was
\* capped by the offset
CpDouble(cap, off) == IF cap THEN 2 * off ELSE off

\* one iteration of cmd_gen_1's loop; load: the element elh was pulled in
\* this iteration
CmdGen1Step(g, elh, load) ==
    LET cp_rem0 == IF load THEN CpLoad(elh.cp_val, elh.cp_len, g.cp_rem) ELSE g.cp_rem
        off0    == IF load THEN elh.cp_off ELSE g.elh_cp_off
        cp_len0 == CpChunk(cp_rem0)
        cp_rle  == CpRle(off0)
        cap     == ~cp_rle /\ cp_len0 >= off0
        cp_len  == IF cap THEN off0 - 1 ELSE cp_len0
        cp_rem1 == cp_rem0 - (cp_len + 1)
        advance == cp_rem1 < 0
    IN  [raise |-> IF cap /\ ~(off0 < WI) THEN "AssertionError: elh_cp_off < WI" ELSE "none",
         cp_rem |-> cp_rem1,
         elh_cp_off |-> CpDouble(cap, off0),
         elh_valid |-> ~advance,
         rec |-> PartialCommandStream(off0, cp_len, cp_rle,
                                      elh.li_val /\ advance, elh.li_off, elh.li_len,
                                      PopForward(elh.ld_pop, advance), elh.last /\ advance,
                                      elh.py_data, elh.ck)]

cmd_gen_1 ==
    /\ err = "none"
    /\ c1_demand
    /\ (cg1.elh_valid \/ el # <<>>)
    /\ LET load == ~cg1.elh_valid
           elh  == IF load THEN Head(el) ELSE cg1.elh
           g    == CmdGen1Step(cg1, elh, load)
       IN  /\ el' = IF load THEN <<>> ELSE el
           /\ IF g.raise # "none"
              THEN /\ err' = g.raise
                   /\ UNCHANGED <<cg1, c1, stat>>
              ELSE /\ cg1' = [elh_valid |-> g.elh_valid, elh |-> elh, cp_rem |-> g.cp_rem,
                              parts |-> (IF load THEN 0 ELSE cg1.parts) + 1,
                              sent |-> (IF load THEN 0 ELSE cg1.sent) + g.rec.cp_len + 1,
                              elh_cp_off |-> g.elh_cp_off]
                   /\ c1' = <<g.rec>>
                   /\ stat' = Count(stat, "c1", g.rec, g.rec.ld_pop)
                   /\ err' = err
    /\ UNCHANGED <<ver, chunks, src, cs, pre, cd, dec, cg2, cm, dpath, de, out>>

-----------------------------------------------------------------------------
(* cmd_gen_2 *)

\* the literal-throttling test of cmd_gen_2 ("if li_off >= 8")
LiCap(li_off, li_chunk_len) == IF li_off >= 8 THEN 0 ELSE li_chunk_len

\* faulty variant: the write position and the line count survive the chunk
CmdGen2Reset_keep(last, off, lt_cnt) == [off |-> off, lt_cnt |-> lt_cnt]

\* faulty variant: the line count survives the chunk
CmdGen2Reset_off(last, off, lt_cnt) ==
    IF last THEN [off |-> 0, lt_cnt |-> lt_cnt] ELSE [off |-> off, lt_cnt |-> lt_cnt]

\* what cmd_gen_2 does to off and lt_cnt when it releases a record with last
CmdGen2Reset(last, off, lt_cnt) ==
    IF last THEN [off |-> 0, lt_cnt |-> 0] ELSE [off |-> off, lt_cnt |-> lt_cnt]

\* faulty variant: the literal offset stays on the window of the record
\* that was released
LiRebase_none(release, li_off) == li_off

\* the literal offset moves to the window of the next record when a record
\* is released
LiRebase(release, li_off) == IF release THEN li_off - WI ELSE li_off

\* faulty variant: a waiting record is taken up whatever is pending
Lift_eager(li_len, c1_pend) == c1_pend

\* the copy and the literal of the record held are taken up when no literal
\* bytes are pending
Lift(li_len, c1_pend) == li_len < 0 /\ c1_pend

\* faulty variant: the even bank is addressed as the odd bank is
LtAdev_floor(lt_addr) == (lt_addr \div 2) % Pow2(15 - WB)

\* the address in the even bank: of line lt_addr when that is even, of line
\* lt_addr + 1 when it is odd
LtAdev(lt_addr) == ((lt_addr + 1) \div 2) % Pow2(15 - WB)

\* faulty variant: every copy from an earlier line reads long-term memory
LtVal_near(line, cp_len) == line < 0 /\ cp_len >= 0

\* a copy reads long-term memory when its source line is beyond the depth of
\* short-term memory
LtVal(line, cp_len) == line < -31 /\ cp_len >= 0

\* faulty variant: the line itself instead of its one's complement
StAddr_neg(line) == (-line) % 32

\* the short-term address of a source line: ~line, in 5 bits
StAddr(line) == (-1 - line) % 32

\* faulty variant: a line that is filled exactly is not counted
LineWrap_strict(off, lt_cnt) == IF off > WI THEN lt_cnt + 1 ELSE lt_cnt

\* the line count after a command that wrote up to off
LineWrap(off, lt_cnt) == IF off >= WI THEN lt_cnt + 1 ELSE lt_cnt

\* faulty variant: the literal may fill a whole line whatever the copy took
Budget_full(cp_len) == WI

\* the byte slots left for the literal after a copy of cp_len + 1 bytes
Budget(cp_len) == Xor(cp_len % (WI * 2), WI - 1)

\* cmd_gen_2 with the literal-throttling test left out ("can be disabled")
LiCap_none(li_off, li_chunk_len) == li_chunk_len

\* one iteration of cmd_gen_2's loop; load: the partial command c1h was
\* pulled in this iteration; Cap: the literal-throttling test
CmdGen2StepWith(Cap(_, _), g, c1h, load) ==
    LET c1_pend0 == IF load THEN (c1h.cp_len >= 0 \/ c1h.li_val) ELSE g.c1_pend
        lift     == Lift(g.li_len, c1_pend0)
        cp_len   == IF lift THEN c1h.cp_len ELSE g.cp_len
        li_len0  == IF lift /\ c1h.li_val THEN c1h.li_len ELSE g.li_len
        li_off0  == IF lift THEN c1h.li_off ELSE g.li_off
        c1_pend  == IF lift THEN FALSE ELSE c1_pend0
        py_start == g.off
        \* copy source addresses
        cp_src_rel      == g.off - c1h.cp_off
        cp_src_rc1_line == cp_src_rel \div Pow2(WB)
        cp_src_rc1_offs == cp_src_rel % WI
        st_addr  == StAddr(cp_src_rc1_line)
        lt_val   == LtVal(cp_src_rc1_line, cp_len)
        lt_addr  == g.lt_cnt + cp_src_rc1_line
        lt_swap  == (lt_addr % 2) = 1
        lt_adev  == LtAdev(lt_addr)
        lt_adod  == (lt_addr \div 2) % Pow2(15 - WB)
        cp_rol   == IF c1h.cp_rle THEN cp_src_rc1_offs
                    ELSE (cp_src_rc1_offs - g.off) % (WI * 2)
        budget   == Budget(cp_len)
        off1     == g.off + cp_len + 1
        cp_len2  == -1
        cp_end   == off1
        \* literal
        li_chunk_len == Cap(li_off0, Min(Min(li_len0 + 1, WI * 2 - li_off0), budget))
        li_rol   == (li_off0 - off1) % (WI * 2)
        off2     == off1 + li_chunk_len
        li_off1  == li_off0 + li_chunk_len
        li_len1  == li_len0 - li_chunk_len
        li_end   == off2
        lt_cnt1  == LineWrap(off2, g.lt_cnt)
        off3     == off2 % WI
        ld_pend  == li_len1 >= 0 /\ li_off1 < WI
        finishing == c1h.last /\ (li_len1 >= 0 \/ cp_len2 >= 0)
        release  == ~(cp_len2 >= 0 \/ c1_pend \/ ld_pend \/ finishing)
        ld_pop   == release /\ c1h.ld_pop
        last     == release /\ c1h.last
        rst      == CmdGen2Reset(last, off3, lt_cnt1)
    IN  [off |-> rst.off, lt_cnt |-> rst.lt_cnt, c1h_valid |-> ~release,
         c1_pend |-> c1_pend, cp_len |-> cp_len2, li_len |-> li_len1,
         li_off |-> LiRebase(release, li_off1),
         rec |-> CommandStream(lt_val, lt_adev, lt_adod, lt_swap, st_addr, cp_rol,
                               c1h.cp_rle, cp_end, li_rol, li_end, ld_pop, last,
                               c1h.py_data, py_start, c1h.ck)]

CmdGen2Step(g, c1h, load) == CmdGen2StepWith(LiCap, g, c1h, load)

\* a constructor whose assert statements are compiled out (python -O)
NoAssert(r) == "none"

\* cmd_gen_2 from where it is resumed to its next yield; Check: the
\* assertions of the CommandStream constructor
cmd_gen_2_with(Cap(_, _), Check(_)) ==
    /\ err = "none"
    /\ cm_demand
    /\ (cg2.c1h_valid \/ c1 # <<>>)
    /\ LET load == ~cg2.c1h_valid
           c1h  == IF load THEN Head(c1) ELSE cg2.c1h
           g    == CmdGen2StepWith(Cap, cg2, c1h, load)
           a    == Check(g.rec)
       IN  /\ c1' = IF load THEN <<>> ELSE c1
           /\ IF a # "none"
              THEN /\ err' = a
                   /\ UNCHANGED <<cg2, cm, stat>>
              ELSE /\ cg2' = [off |-> g.off, lt_cnt |-> g.lt_cnt, c1h_valid |-> g.c1h_valid,
                              c1h |-> c1h, c1_pend |-> g.c1_pend, cp_len |-> g.cp_len,
                              li_len |-> g.li_len, li_off |-> g.li_off,
                              lt_was |-> cg2.lt_cnt]
                   /\ cm' = <<g.rec>>
                   /\ stat' = Count(stat, "cm", g.rec, g.rec.ld_pop)
                   /\ err' = err
    /\ UNCHANGED <<ver, chunks, src, cs, pre, cd, dec, el, cg1, dpath, de, out>>

cmd_gen_2 == cmd_gen_2_with(LiCap, CommandStream_assert)

\* the variant of cmd_gen_2 without the literal-throttling test
cmd_gen_2_nocap == cmd_gen_2_with(LiCap_none, CommandStream_assert)

\* cmd_gen_2 when assert statements are compiled out
cmd_gen_2_noassert == cmd_gen_2_with(LiCap, NoAssert)

-----------------------------------------------------------------------------
(* SRL: a shift register with random read access *)

SRL_new == [data |-> [i \in 0..(SRL_DEPTH - 1) |-> 0], ptr |-> 0]

SRL_push(r, value) ==
    LET p == (r.ptr - 1) % SRL_DEPTH
    IN  [data |-> [r.data EXCEPT ![p] = value], ptr |-> p]

SRL_get(r, index) == r.data[(r.ptr + index) % SRL_DEPTH]

-----------------------------------------------------------------------------
(* datapath *)

Bytes == 0..(WI - 1)
B2I(b) == IF b THEN 1 ELSE 0

\* lt is kept as the list of the lines written so far; every other line of
\* the 2**(16-WB) lines still holds its initial zeros
LtRead(lt, a) == IF a + 1 <= Len(lt) THEN lt[a + 1] ELSE ZeroLine
LtWrite(lt, a, line) ==
    [i \in 1..Max(Len(lt), a + 1) |-> IF i = a + 1 THEN line ELSE LtRead(lt, i - 1)]

\* output selection per byte: 1 copy, 0 literal
MuxSel(c, byte) ==
    IF byte < c.cp_end - WI THEN 1
    ELSE IF byte < c.li_end - WI THEN 0
    ELSE IF byte < c.cp_end THEN 1
    ELSE 0

RolSel(c, byte) ==
    IF MuxSel(c, byte) = 1
    THEN (IF c.cp_rle THEN (c.cp_rol - byte) % (WI * 2) ELSE c.cp_rol)
    ELSE c.li_rol

Prec(c) == Max(0, c.li_end - WI)

\* faulty variant: the lookahead bit ignores the bytes that precede the line
StLa_noprec(c, byte) == IF c.cp_rle THEN FALSE
                        ELSE ((byte - c.cp_rol) % (WI * 2)) >= WI

\* lookahead bits: take the byte from the line after the addressed one
StLa(c, byte) == IF c.cp_rle THEN FALSE
                 ELSE ((byte - c.cp_rol - Prec(c)) % (WI * 2)) >= WI
LiLa(c, byte) == ((byte - c.li_rol - Prec(c)) % (WI * 2)) >= WI

\* copy source per byte: 0 or 1 short-term, 2 long-term even, 3 long-term odd
CpSel(c, byte) == 2 * B2I(c.lt_val) + B2I(StLa(c, byte) # c.lt_swap)

\* the short-term read of one column
StData(d, c, byte) ==
    SRL_get(d.st[byte], c.st_addr - B2I(StLa(c, byte)) + B2I(d.oh_valid[byte]))

CpData(d, c, byte) ==
    IF CpSel(c, byte) = 2 THEN LtRead(d.lt, c.lt_adev * 2)[byte]
    ELSE IF CpSel(c, byte) = 3 THEN LtRead(d.lt, c.lt_adod * 2 + 1)[byte]
    ELSE StData(d, c, byte)

LiData(c, byte) == c.py_data[byte + WI * B2I(LiLa(c, byte))]

\* rotator and output mux
MuxData(d, c) ==
    [byte \in Bytes |->
        LET i == (RolSel(c, byte) + byte) % WI
        IN  IF MuxSel(c, byte) = 1 THEN CpData(d, c, i) ELSE LiData(c, i)]

\* faulty variant: bytes that are held already are latched again
Latch1_over(d, c, mux) ==
    LET hit(byte) == byte < c.li_end
    IN  [d EXCEPT !.oh_data  = [byte \in Bytes |-> IF hit(byte) THEN mux[byte] ELSE @[byte]],
                  !.oh_valid = [byte \in Bytes |-> IF hit(byte) THEN TRUE ELSE @[byte]],
                  !.st       = [byte \in Bytes |->
                                   IF hit(byte) THEN SRL_push(@[byte], mux[byte]) ELSE @[byte]]]

\* first update of the holding register and of short-term memory
Latch1(d, c, mux) ==
    LET hit(byte) == ~d.oh_valid[byte] /\ byte < c.li_end
    IN  [d EXCEPT !.oh_data  = [byte \in Bytes |-> IF hit(byte) THEN mux[byte] ELSE @[byte]],
                  !.oh_valid = [byte \in Bytes |-> IF hit(byte) THEN TRUE ELSE @[byte]],
                  !.st       = [byte \in Bytes |->
                                   IF hit(byte) THEN SRL_push(@[byte], mux[byte]) ELSE @[byte]]]

\* update for the next cycle: bytes that spilled over the end of the line
Latch2(d, c, mux) ==
    LET hit(byte) == byte < WI - 1 /\ (byte + WI) < c.li_end
    IN  [d EXCEPT !.oh_data  = [byte \in Bytes |-> IF hit(byte) THEN mux[byte] ELSE @[byte]],
                  !.oh_valid = [byte \in Bytes |-> IF hit(byte) THEN TRUE ELSE @[byte]],
                  !.st       = [byte \in Bytes |->
                                   IF hit(byte) THEN SRL_push(@[byte], mux[byte]) ELSE @[byte]]]

Invalidate(d) == [d EXCEPT !.oh_valid = [byte \in Bytes |-> FALSE]]

\* faulty variant: every finished line is written, an empty one included
LtStore_always(d, c) ==
    [d EXCEPT !.lt = LtWrite(d.lt, d.wr_ptr, d.oh_data), !.wr_ptr = d.wr_ptr + 1]

\* a finished line goes to long-term memory unless nothing was written
LtStore(d, c) ==
    IF c.li_end # 0
    THEN [d EXCEPT !.lt = LtWrite(d.lt, d.wr_ptr, d.oh_data), !.wr_ptr = d.wr_ptr + 1]
    ELSE d

\* faulty variant: the count is taken modulo the line width, as the write
\* offset is
FirstRecord_wrap(d, c) ==
    IF c.last THEN DecompressedStream(d.oh_data, c.li_end <= WI, c.li_end % WI, c.ck)
    ELSE DecompressedStream(d.oh_data, FALSE, WI, c.ck)

\* the record of the first yield for a finished line
FirstRecord(d, c) ==
    IF c.last THEN DecompressedStream(d.oh_data, c.li_end <= WI, Min(WI, c.li_end), c.ck)
    ELSE DecompressedStream(d.oh_data, FALSE, WI, c.ck)

\* faulty variant: the final record counts a whole line
FinalRecord_full(d, c) == DecompressedStream(d.oh_data, TRUE, WI, c.ck)

\* the record of the second yield: the bytes that spilled over the end of
\* the last full line
FinalRecord(d, c) == DecompressedStream(d.oh_data, TRUE, c.li_end - WI, c.ck)

\* datapath from where it is resumed to where it is suspended next.
\*   top: at "for cm in commands"; y1: at the yield of a finished line;
\*   y2: at the yield of the final partial line
DatapathStep(d, c) ==
    IF d.pc = "top" THEN
        LET mux == MuxData(d, c)
            d1  == [Latch1(d, c, mux) EXCEPT !.mux_data = mux, !.cm = c]
        IN  IF c.li_end >= WI \/ c.last
            THEN LET d2 == LtStore(d1, c)
                 IN  [d |-> [d2 EXCEPT !.pc = "y1"], rec |-> <<FirstRecord(d2, c)>>]
            ELSE [d |-> Latch2(d1, c, mux), rec |-> <<>>]
    ELSE IF d.pc = "y1" THEN
        LET d1 == Invalidate(d)
            d2 == IF d.cm.last THEN [d1 EXCEPT !.wr_ptr = 0] ELSE d1
            d3 == Latch2(d2, d.cm, d.mux_data)
        IN  IF d.cm.last /\ d.cm.li_end > WI
            THEN [d |-> [d3 EXCEPT !.pc = "y2"], rec |-> <<FinalRecord(d3, d.cm)>>]
            ELSE [d |-> [d3 EXCEPT !.pc = "top"], rec |-> <<>>]
    ELSE [d |-> [Invalidate(d) EXCEPT !.pc = "top"], rec |-> <<>>]

datapath ==
    /\ err = "none"
    /\ de = <<>>
    /\ (dpath.pc # "top" \/ cm # <<>>)
    /\ LET take == dpath.pc = "top"
           r    == DatapathStep(dpath, IF take THEN Head(cm) ELSE dpath.cm)
           a    == IF r.rec = <<>> THEN "none" ELSE DecompressedStream_assert(r.rec[1])
       IN  /\ cm' = IF take THEN <<>> ELSE cm
           /\ IF a # "none"
              THEN /\ err' = a
                   /\ UNCHANGED <<dpath, de, stat>>
              ELSE /\ dpath' = r.d
                   /\ de' = r.rec
                   /\ stat' = IF r.rec = <<>> THEN stat ELSE Count(stat, "de", r.rec[1], FALSE)
                   /\ err' = err
    /\ UNCHANGED <<ver, chunks, src, cs, pre, cd, dec, el, cg1, c1, cg2, out>>

-----------------------------------------------------------------------------
(* The consumer at the end of the chain pulls one record after the other.  *)

drain ==
    /\ err = "none"
    /\ de # <<>>
    /\ out' = Append(out, Head(de))
    /\ de' = <<>>
    /\ UNCHANGED <<ver, chunks, src, cs, pre, cd, dec, el, cg1, c1, cg2, cm, dpath, stat, err>>

-----------------------------------------------------------------------------
(* The end of the input.  data_source returns when the consumer's pull     *)
(* reaches it with no line left; pre_decoder's for loops end with it, and  *)
(* the decoder's next(cd) meets StopIteration inside a generator.  What     *)
(* follows depends on the interpreter: from Python 3.7 on (PEP 479) the    *)
(* StopIteration becomes a RuntimeError that goes up to the consumer;       *)
(* before, it ends the decoder's generator, and in the same way each stage *)
(* after it.                                                               *)

end_of_stream_raise ==
    /\ err = "none"
    /\ cs_demand
    /\ src.k > Len(chunks) /\ ~src.ended
    /\ src' = [src EXCEPT !.ended = TRUE]
    /\ err' = "RuntimeError: generator raised StopIteration"
    /\ UNCHANGED <<ver, chunks, cs, pre, cd, dec, el, cg1, c1, cg2, cm, dpath, de, out, stat>>

end_of_stream_return ==
    /\ err = "none"
    /\ cs_demand
    /\ src.k > Len(chunks) /\ ~src.ended
    /\ src' = [src EXCEPT !.ended = TRUE]
    /\ UNCHANGED <<ver, chunks, cs, pre, cd, dec, el, cg1, c1, cg2, cm, dpath, de, out, stat, err>>

-----------------------------------------------------------------------------
(* The state after the generators have been created: nothing has run yet.  *)

NoElement == ElementStream(FALSE, 0, 0, FALSE, 0, 0, FALSE, FALSE, Concat(ZeroLine, ZeroLine), 0)
NoPartial == PartialCommandStream(0, -1, FALSE, FALSE, 0, 0, FALSE, FALSE,
                                  Concat(ZeroLine, ZeroLine), 0)
NoCommand == CommandStream(FALSE, 0, 0, FALSE, 0, 0, FALSE, 0, 0, 0, FALSE, FALSE,
                           Concat(ZeroLine, ZeroLine), 0, 0)
NoDouble  == CompressedStreamDouble(Concat(ZeroLine, ZeroLine), FALSE, 0, FALSE, WI - 1,
                                    WI * 2 - 1, 0)

Streams == {"cs", "cd", "el", "c1", "cm", "de"}

\* verifier before its first resumption: at the first expected chunk, no
\* byte verified, the name transfer unbound, the data stream not at its end
VerifierNew == [k |-> 1, idx |-> 0, transfer |-> <<>>, eos |-> FALSE, done |-> FALSE,
                seen |-> <<>>]

InitWith(inputs) ==
    /\ chunks \in inputs
    /\ src = [k |-> NextChunk(chunks, 1), offs |-> 0, ended |-> FALSE]
    /\ cs = <<>>
    /\ pre = [pc |-> "top", prev |-> <<>>, cur |-> ParallelizePad, busy |-> FALSE, start |-> 0]
    /\ cd = <<>>
    /\ dec = [off |-> 0, cdh_valid |-> FALSE, cdh |-> NoDouble, at |-> 0, pull |-> FALSE]
    /\ el = <<>>
    /\ cg1 = [elh_valid |-> FALSE, elh |-> NoElement, cp_rem |-> -1, elh_cp_off |-> 0,
              parts |-> 0, sent |-> 0]
    /\ c1 = <<>>
    /\ cg2 = [off |-> 0, lt_cnt |-> 0, c1h_valid |-> FALSE, c1h |-> NoPartial,
              c1_pend |-> FALSE, cp_len |-> -1, li_len |-> -1, li_off |-> 0,
              lt_was |-> 0]
    /\ cm = <<>>
    /\ dpath = [st |-> [byte \in Bytes |-> SRL_new], lt |-> <<>>, wr_ptr |-> 0,
                oh_valid |-> [byte \in Bytes |-> FALSE], oh_data |-> ZeroLine,
                mux_data |-> ZeroLine, pc |-> "top", cm |-> NoCommand]
    /\ de = <<>>
    /\ out = <<>>
    /\ stat = [s \in Streams |-> [n |-> 0, pop |-> 0, last |-> 0]]
    /\ ver = VerifierNew
    /\ err = "none"

Init == InitWith(Inputs)

Next ==
    \/ data_source
    \/ pre_decoder
    \/ decoder
    \/ cmd_gen_1
    \/ cmd_gen_2
    \/ datapath
    \/ drain
    \/ end_of_stream_raise
    \/ end_of_stream_return

Spec == Init /\ [][Next]_vars

\* the pipeline fed with a chunk, other chunks, and the first chunk again
SpecRepeat == InitWith(RepeatInputs) /\ [][Next]_vars

\* the pipeline fed with chunks whose length varint takes 1 to 5 bytes
SpecVarint == InitWith(VarintInputs) /\ [][Next]_vars

\* the pipeline fed with well-formed chunks and with malformed ones
SpecMalformed == InitWith(MalformedInputs) /\ [][Next]_vars

\* the pipeline fed with chunks whose copies reach back too far
SpecUnderflow == InitWith(UnderflowInputs) /\ [][Next]_vars

-----------------------------------------------------------------------------
(* cmd_gen_1 on its own, driven with arbitrary Elements: an iterator hands *)
(* it Elements and a consumer takes its partial commands.                  *)

\* the most Elements handed to cmd_gen_1 in one run
MaxFeed == 2

\* Elements with and without cp_val, with copy offsets around the line width
\* and at the ends of the 16-bit range, and diminished-one copy lengths
\* around the line width and up to the largest
AnyElements ==
    {ElementStream(v, o, n, FALSE, 0, 0, FALSE, FALSE, Concat(ZeroLine, ZeroLine), 0) :
        v \in BOOLEAN, o \in 0..9 \cup {16, 65535}, n \in {0, 1, 3, 7, 8, 15, 63}}

\* next(elements): cmd_gen_1 is handed the next Element
next_element ==
    /\ err = "none"
    /\ el_demand
    /\ stat["el"].n < MaxFeed
    /\ \E e \in AnyElements :
          /\ ElementStream_assert(e) = "none"
          /\ el' = <<e>>
          /\ stat' = Count(stat, "el", e, e.ld_pop)
    /\ UNCHANGED <<ver, chunks, src, cs, pre, cd, dec, cg1, c1, cg2, cm, dpath, de, out, err>>

\* the consumer of cmd_gen_1 takes the partial command it yielded
take_partial ==
    /\ err = "none"
    /\ c1 # <<>>
    /\ c1' = <<>>
    /\ UNCHANGED <<ver, chunks, src, cs, pre, cd, dec, el, cg1, cg2, cm, dpath, de, out, stat, err>>

NextCmdGen1 ==
    \/ next_element
    \/ cmd_gen_1
    \/ take_partial

SpecCmdGen1 == InitWith({<<>>}) /\ [][NextCmdGen1]_vars

-----------------------------------------------------------------------------
(* cmd_gen_2 and the datapath on their own, for the bank addressing of     *)
(* long-term memory: cmd_gen_2 starts with any line count and is handed    *)
(* one copy of a whole line from more than SRL_DEPTH lines back; every     *)
(* line of long-term memory up to the ones it reads holds its own address. *)

MaxLtLow == 24
MaxLtHigh == 8

\* line addresses at both ends of the range and around the middle of it
LtAddrs ==
    0..MaxLtLow \cup {LT_LINES \div 2 - 2, LT_LINES \div 2 - 1, LT_LINES \div 2}
        \cup (LT_LINES - 2 - MaxLtHigh)..(LT_LINES - 2)

\* copy offsets of SRL_DEPTH lines, and of three bytes more
FarOffsets == {SRL_DEPTH * WI, SRL_DEPTH * WI + 3}

\* the line of long-term memory at address a, filled with its address
TagLine(a) == [b \in Bytes |-> IF b % 2 = 0 THEN a % 256 ELSE a \div 256]

FarCopy(o) ==
    PartialCommandStream(o, WI - 1, FALSE, FALSE, 0, 0, FALSE, FALSE,
                         Concat(ZeroLine, ZeroLine), 0)

InitLtBanks ==
    \E a \in LtAddrs, o \in FarOffsets :
        /\ chunks = <<>>
        /\ src = [k |-> NextChunk(chunks, 1), offs |-> 0, ended |-> FALSE]
        /\ cs = <<>>
        /\ pre = [pc |-> "top", prev |-> <<>>, cur |-> ParallelizePad, busy |-> FALSE,
                  start |-> 0]
        /\ cd = <<>>
        /\ dec = [off |-> 0, cdh_valid |-> FALSE, cdh |-> NoDouble, at |-> 0, pull |-> FALSE]
        /\ el = <<>>
        /\ cg1 = [elh_valid |-> FALSE, elh |-> NoElement, cp_rem |-> -1, elh_cp_off |-> 0,
                  parts |-> 0, sent |-> 0]
        /\ c1 = <<FarCopy(o)>>
        /\ cg2 = [off |-> 0, lt_cnt |-> a - ((0 - o) \div WI), c1h_valid |-> FALSE,
                  c1h |-> NoPartial, c1_pend |-> FALSE, cp_len |-> -1, li_len |-> -1,
                  li_off |-> 0, lt_was |-> 0]
        /\ cm = <<>>
        /\ dpath = [st |-> [byte \in Bytes |-> SRL_new],
                    lt |-> [i \in 1..(a + 2) |-> TagLine(i - 1)], wr_ptr |-> 0,
                    oh_valid |-> [byte \in Bytes |-> FALSE], oh_data |-> ZeroLine,
                    mux_data |-> ZeroLine, pc |-> "top", cm |-> NoCommand]
        /\ de = <<>>
        /\ out = <<>>
        /\ stat = [s \in Streams |-> [n |-> 0, pop |-> 0, last |-> 0]]
        /\ ver = VerifierNew
        /\ err = "none"

NextLtBanks ==
    \/ cmd_gen_2
    \/ datapath
    \/ drain

SpecLtBanks == InitLtBanks /\ [][NextLtBanks]_vars

-----------------------------------------------------------------------------
(* The pipeline with assert statements compiled out (python -O).  On the   *)
(* inputs of the model the one assertion that ever fails is the one of the *)
(* CommandStream constructor.                                              *)

NextNoAssert ==
    \/ data_source
    \/ pre_decoder
    \/ decoder
    \/ cmd_gen_1
    \/ cmd_gen_2_noassert
    \/ datapath
    \/ drain
    \/ end_of_stream_raise
    \/ end_of_stream_return

SpecNoAssert == Init /\ [][NextNoAssert]_vars

-----------------------------------------------------------------------------
(* The pipeline run twice on the same input: first as it is, then with the *)
(* variant of cmd_gen_2 that has no literal-throttling test.  When the     *)
(* first run has stopped its outcome is kept in stat under "capped" and    *)
(* every generator is created anew.                                        *)

FirstRun == "capped" \notin DOMAIN stat

second_run ==
    /\ FirstRun
    /\ err # "none" \/ (cs_demand /\ src.k > Len(chunks))
    /\ src' = [k |-> NextChunk(chunks, 1), offs |-> 0, ended |-> FALSE]
    /\ cs' = <<>>
    /\ pre' = [pc |-> "top", prev |-> <<>>, cur |-> ParallelizePad, busy |-> FALSE, start |-> 0]
    /\ cd' = <<>>
    /\ dec' = [off |-> 0, cdh_valid |-> FALSE, cdh |-> NoDouble, at |-> 0, pull |-> FALSE]
    /\ el' = <<>>
    /\ cg1' = [elh_valid |-> FALSE, elh |-> NoElement, cp_rem |-> -1, elh_cp_off |-> 0,
               parts |-> 0, sent |-> 0]
    /\ c1' = <<>>
    /\ cg2' = [off |-> 0, lt_cnt |-> 0, c1h_valid |-> FALSE, c1h |-> NoPartial,
               c1_pend |-> FALSE, cp_len |-> -1, li_len |-> -1, li_off |-> 0,
               lt_was |-> 0]
    /\ cm' = <<>>
    /\ dpath' = [st |-> [byte \in Bytes |-> SRL_new], lt |-> <<>>, wr_ptr |-> 0,
                 oh_valid |-> [byte \in Bytes |-> FALSE], oh_data |-> ZeroLine,
                 mux_data |-> ZeroLine, pc |-> "top", cm |-> NoCommand]
    /\ de' = <<>>
    /\ out' = <<>>
    /\ stat' = [s \in Streams \cup {"capped"} |->
                   IF s = "capped" THEN [out |-> out, err |-> err]
                   ELSE [n |-> 0, pop |-> 0, last |-> 0]]
    /\ err' = "none"
    /\ UNCHANGED <<ver, chunks>>

NextTwoRuns ==
    \/ data_source
    \/ pre_decoder
    \/ decoder
    \/ cmd_gen_1
    \/ FirstRun /\ cmd_gen_2
    \/ ~FirstRun /\ cmd_gen_2_nocap
    \/ datapath
    \/ drain
    \/ second_run

SpecTwoRuns == Init /\ [][NextTwoRuns]_vars

-----------------------------------------------------------------------------

(* Observations of a run.                                                  *)

\* every generator is suspended on an exhausted source: the whole input
\* stream has been processed
Done == err = "none" /\ cs_demand /\ src.k > Len(chunks)

\* nothing runs any more: the input is used up or an exception was raised
Halted == err # "none" \/ Done

\* the valid bytes of one Decompressed record, data[0:cnt]
RecBytes(r) == [i \in 1..r.cnt |-> r.data[i - 1]]

RECURSIVE FlatBytes(_)
FlatBytes(log) ==
    IF log = <<>> THEN <<>> ELSE RecBytes(Head(log)) \o FlatBytes(Tail(log))

\* the chunks of a Decompressed record log: the valid bytes up to and
\* including each record with last set
RECURSIVE SplitByLast(_, _)
SplitByLast(log, cur) ==
    IF log = <<>> THEN <<>>
    ELSE LET b == cur \o RecBytes(Head(log))
         IN  IF Head(log).last THEN <<b>> \o SplitByLast(Tail(log), <<>>)
             ELSE SplitByLast(Tail(log), b)

\* the bytes already emitted for the chunk that is being written
CurrentChunk(log) ==
    LET ends == {i \in 1..Len(log) : log[i].last}
        from == IF ends = {} THEN 1
                ELSE (CHOOSE i \in ends : \A j \in ends : j <= i) + 1
    IN  FlatBytes(SubSeq(log, from, Len(log)))

\* the Decompressed records produced so far for the k-th chunk of the input
ChunkRecs(k) == SelectSeq(out \o de, LAMBDA r : r.ck = k)

\* what a consumer sees of a record: last, cnt and data[0:cnt]
Visible(recs) ==
    [i \in 1..Len(recs) |->
        [last |-> recs[i].last, cnt |-> recs[i].cnt, bytes |-> RecBytes(recs[i])]]

-----------------------------------------------------------------------------
(* Properties.                                                             *)

\* C1: when the pipeline has stopped, the Decompressed records, cut at the
\* records with last set, are the reference decoder's bytes of every chunk of
\* the input, in order.
C1_RoundTrip ==
    Halted => SplitByLast(out, <<>>) = [k \in 1..Len(chunks) |-> RefDecode(chunks[k])]

\* C2: for the command the datapath is about to execute, every byte it
\* latches for a copy position P of the chunk equals the byte at position
\* P - K of the chunk, K the offset encoded in the element; the bytes of the
\* same command count as already written (overlap), and positions past the
\* end of the line are the ones latched for the next line.
C2_CopyBytes ==
    (cm # <<>> /\ dpath.pc = "top" /\ cm[1].cp_end > cm[1].py_start) =>
        LET c     == cm[1]
            mux   == MuxData(dpath, c)
            K     == cg1.elh.cp_off
            held  == [i \in 1..c.py_start |-> dpath.oh_data[i - 1]]
            prior == CurrentChunk(out) \o held
            new   == [i \in 1..(c.li_end - c.py_start) |-> mux[(c.py_start + i - 1) % WI]]
            all   == prior \o new
            P0    == Len(prior)
        IN  /\ \A b \in Bytes : dpath.oh_valid[b] = (b < c.py_start)
            /\ c.li_end - c.py_start <= WI
            /\ K >= 1
            /\ \A j \in 1..(c.cp_end - c.py_start) :
                   /\ P0 + j - K >= 1
                   /\ all[P0 + j] = all[P0 + j - K]

\* an overlapping copy whose bytes run over the end of the output line
C2_Witness ==
    /\ cm # <<>> /\ dpath.pc = "top"
    /\ cm[1].cp_end > WI
    /\ cm[1].py_start > 0
    /\ ~cm[1].cp_rle
    /\ cg1.elh.cp_off < cg1.elh.cp_len + 1

\* C3: once the whole input stream has been processed, decoder, cmd_gen_1
\* and cmd_gen_2 have each emitted as many records with ld_pop as data_source
\* has emitted lines.
C3_PopCounts ==
    Done => /\ stat["el"].pop = stat["cs"].n
            /\ stat["c1"].pop = stat["cs"].n
            /\ stat["cm"].pop = stat["cs"].n

\* two chunks of several lines, with more elements than lines and more
\* commands than elements
C3_Witness ==
    /\ Done
    /\ Len(chunks) = 2
    /\ stat["cs"].n >= 4
    /\ stat["el"].n > stat["cs"].n
    /\ stat["cm"].n > stat["c1"].n

\* C8: cmd_gen_2 never builds a Command with last set and li_end > WI: the
\* constructor's assertion never fails and no such record is in flight.
C8_LastFitsLine ==
    /\ err # "AssertionError: cm.li_end <= WI or not cm.last"
    /\ \A i \in 1..Len(cm) : cm[i].last => cm[i].li_end <= WI

\* the streams in pipeline order, and the record in flight on each
StreamOrder == <<"cs", "cd", "el", "c1", "cm", "de">>
InFlight(name) ==
    CASE name = "cs" -> cs [] name = "cd" -> cd [] name = "el" -> el
      [] name = "c1" -> c1 [] name = "cm" -> cm [] OTHER -> de

\* C4: no stage is ahead of the stage before it in records with last set;
\* a record emitted after a stage's k-th last record and up to its next one
\* belongs to chunk k + 1; and when the pipeline has stopped every last
\* record of a stage has been followed by one of the next stage.
C4_LastAlignment ==
    /\ \A i \in 1..(Len(StreamOrder) - 1) :
           stat[StreamOrder[i + 1]].last <= stat[StreamOrder[i]].last
    /\ \A name \in Streams : \A i \in 1..Len(InFlight(name)) :
           LET r == InFlight(name)[i]
           IN  r.ck = stat[name].last + (IF r.last THEN 0 ELSE 1)
    /\ Halted =>
           \A i \in 1..(Len(StreamOrder) - 1) :
               stat[StreamOrder[i + 1]].last = stat[StreamOrder[i]].last

\* C5: when the pipeline has stopped, cmd_gen_1, cmd_gen_2 and the datapath
\* have emitted a last record for every last Element of the decoder, and a
\* stage that emits last has no copy or literal bytes pending.
C5_LastDrains ==
    /\ Halted => /\ stat["c1"].last = stat["el"].last
                 /\ stat["cm"].last = stat["el"].last
                 /\ stat["de"].last = stat["el"].last
    /\ \A i \in 1..Len(c1) : c1[i].last => cg1.cp_rem < 0
    /\ \A i \in 1..Len(cm) : cm[i].last => (cg2.cp_len < 0 /\ cg2.li_len < 0)

\* the chunk that is only the varint 00
EmptyChunk(k) == chunks[k] = <<0>>

\* C6: of an empty chunk the pipeline emits at most one Decompressed record,
\* with cnt = 0 and last; exactly one once the pipeline has stopped after
\* data_source handed the chunk in; its command carries no bytes and the
\* datapath's write pointer stays at 0 while it executes it: no
\* long-term memory line is written.
C6_EmptyChunk ==
    \A k \in 1..Len(chunks) : EmptyChunk(k) =>
        /\ Len(ChunkRecs(k)) <= 1
        /\ \A i \in 1..Len(ChunkRecs(k)) : ChunkRecs(k)[i].cnt = 0 /\ ChunkRecs(k)[i].last
        /\ (Halted /\ stat["cs"].last >= k) => Len(ChunkRecs(k)) = 1
        /\ \A i \in 1..Len(cm) : cm[i].ck = k => cm[i].li_end = 0
        /\ dpath.cm.ck = k => dpath.wr_ptr = 0

\* the datapath has just executed the command of an empty chunk that came
\* after a chunk that left lines in long-term memory
C6_Witness ==
    /\ Len(chunks) = 2 /\ EmptyChunk(2)
    /\ dpath.pc = "y1" /\ dpath.cm.ck = 2
    /\ dpath.lt # <<>>
    /\ Len(ChunkRecs(2)) = 1

IsPrefix(s, t) == Len(s) <= Len(t) /\ \A i \in 1..Len(s) : s[i] = t[i]

\* C7: when a chunk is processed first and again after other chunks, the
\* records of the later run are, at every moment, the first records of the
\* first run, and all of them once the input has been processed.
C7_ChunkIndependence ==
    (Len(chunks) = 3 /\ chunks[1] = chunks[3]) =>
        /\ IsPrefix(Visible(ChunkRecs(3)), Visible(ChunkRecs(1)))
        /\ Done => Visible(ChunkRecs(3)) = Visible(ChunkRecs(1))

\* a chunk with a copy has been decoded again after a chunk that left other
\* bytes in the memories, a write position inside the line and a literal
\* offset
C7_Witness ==
    /\ Done
    /\ Len(chunks) = 3 /\ chunks[1] = chunks[3] /\ chunks[2] # chunks[1]
    /\ Len(ChunkRecs(3)) >= 2
    /\ Len(ChunkRecs(2)) >= 3
    /\ \E i \in 1..Len(ChunkRecs(2)) : ChunkRecs(2)[i].cnt \in 1..(WI - 1)

\* C9: every record of decoder, cmd_gen_1 and cmd_gen_2 with last set has
\* ld_pop set, and no constructor rejects a record for last without ld_pop.
C9_LastImpliesPop ==
    /\ \A i \in 1..Len(el) : el[i].last => el[i].ld_pop
    /\ \A i \in 1..Len(c1) : c1[i].last => c1[i].ld_pop
    /\ \A i \in 1..Len(cm) : cm[i].last => cm[i].ld_pop
    /\ err # "AssertionError: el.ld_pop or not el.last"
    /\ err # "AssertionError: cm.ld_pop or not cm.last"

\* cmd_gen_2 has emitted the last command of a chunk of several elements,
\* after decoder and cmd_gen_1 emitted their last records
C9_Witness ==
    /\ cm # <<>> /\ cm[1].last /\ cm[1].ld_pop
    /\ stat["el"].last = 1 /\ stat["c1"].last = 1
    /\ stat["el"].n >= 3
    /\ stat["el"].n > stat["el"].pop

\* C10: a Decompressed record without last has cnt = WI; a chunk has at
\* most one record with last, which is its final record; and when the
\* pipeline has stopped every chunk that data_source handed in completely
\* has its record with last.
C10_LastRecord ==
    /\ \A i \in 1..Len(out \o de) : ~(out \o de)[i].last => (out \o de)[i].cnt = WI
    /\ \A k \in 1..Len(chunks) : \A i \in 1..Len(ChunkRecs(k)) :
           ChunkRecs(k)[i].last => i = Len(ChunkRecs(k))
    /\ Halted => \A k \in 1..stat["cs"].last :
           \E i \in 1..Len(ChunkRecs(k)) : ChunkRecs(k)[i].last

\* C11 as stated: every Decompressed record of a chunk that is not the empty
\* chunk has cnt between 1 and WI.
C11_CntPositive ==
    \A k \in 1..Len(chunks) : ~EmptyChunk(k) =>
        \A i \in 1..Len(ChunkRecs(k)) : ChunkRecs(k)[i].cnt \in 1..WI

\* C11, amended: every Decompressed record of a chunk that is not the empty
\* chunk has cnt between 0 and WI; a record with cnt = 0 has last set, is the
\* final record of its chunk and comes after at least one full line, and all
\* records before it carry WI bytes.
C11_CntRange ==
    \A k \in 1..Len(chunks) : ~EmptyChunk(k) =>
        \A i \in 1..Len(ChunkRecs(k)) :
            /\ ChunkRecs(k)[i].cnt \in 0..WI
            /\ ChunkRecs(k)[i].cnt = 0 =>
                   /\ ChunkRecs(k)[i].last
                   /\ i = Len(ChunkRecs(k))
                   /\ i > 1
                   /\ \A j \in 1..(i - 1) : ChunkRecs(k)[j].cnt = WI

\* a chunk of WI or more bytes has been closed by a record with cnt = 0
C11_Witness ==
    \E k \in 1..Len(chunks) :
        /\ ~EmptyChunk(k)
        /\ Len(ChunkRecs(k)) >= 2
        /\ ChunkRecs(k)[Len(ChunkRecs(k))].cnt = 0
        /\ ChunkRecs(k)[Len(ChunkRecs(k))].last
        /\ Len(RefDecode(chunks[k])) = WI * (Len(ChunkRecs(k)) - 1)

\* the number of lines of a chunk of n bytes: len(range(0, n, WI))
LineCount(n) == (n + WI - 1) \div WI

\* the number of lines of the chunks before the k-th
RECURSIVE LinesBefore(_)
LinesBefore(k) == IF k <= 1 THEN 0 ELSE LinesBefore(k - 1) + LineCount(Len(chunks[k - 1]))

\* the position, from 1, within its chunk of the newest record of a stream
\* that carries one record per line, when that record belongs to chunk k
LineIndex(name, k) == stat[name].n - LinesBefore(k)

\* C12: the j-th CompressedSingle record of a chunk of n > 0 bytes carries
\* the chunk's bytes 8(j-1).. in order, zero after endi; there are
\* ceil(n/WI) of them, last is set on the final one only, whose endi is
\* (n-1) mod WI, and every other record has endi = WI-1.
C12_SourceLines ==
    /\ \A i \in 1..Len(cs) :
          LET r == cs[i]
              n == Len(chunks[r.ck])
              j == LineIndex("cs", r.ck)
          IN  /\ n > 0
              /\ j \in 1..LineCount(n)
              /\ r.last <=> j = LineCount(n)
              /\ r.endi = IF r.last THEN (n - 1) % WI ELSE WI - 1
              /\ r.endi < WI - 1 => r.last
              /\ \A b \in 0..(WI - 1) :
                    r.data[b] = IF b <= r.endi THEN chunks[r.ck][(j - 1) * WI + b + 1] ELSE 0
    /\ stat["cs"].n <= LinesBefore(Len(chunks) + 1)
    /\ Done => stat["cs"].n = LinesBefore(Len(chunks) + 1)
    /\ err # "AssertionError: cs.endi == WI-1 or cs.last"

\* data_source has emitted the short final line of the second chunk, a chunk
\* of several lines
C12_Witness ==
    /\ cs # <<>> /\ cs[1].ck = 2
    /\ cs[1].last /\ cs[1].endi < WI - 1
    /\ LineIndex("cs", 2) >= 2

\* the j-th line of the k-th chunk, with zeros after the chunk's last byte
ChunkLine(k, j) ==
    [b \in 0..(WI - 1) |->
        IF (j - 1) * WI + b + 1 <= Len(chunks[k]) THEN chunks[k][(j - 1) * WI + b + 1] ELSE 0]

\* C13: the j-th CompressedDouble record of a chunk carries the chunk's j-th
\* line in its low WI bytes and the chunk's (j+1)-th line in its high WI
\* bytes, all zero when the j-th line is the chunk's last one, on which last
\* is set; pre_decoder never emits more records than it has pulled lines, and
\* as many once the input has been processed.
C13_LinePairs ==
    /\ \A i \in 1..Len(cd) :
          LET r == cd[i]
              n == LineCount(Len(chunks[r.ck]))
              j == LineIndex("cd", r.ck)
          IN  /\ j \in 1..n
              /\ r.last <=> j = n
              /\ \A b \in 0..(WI - 1) :
                    /\ r.data[b] = ChunkLine(r.ck, j)[b]
                    /\ r.data[WI + b] = IF j < n THEN ChunkLine(r.ck, j + 1)[b] ELSE 0
    /\ stat["cd"].n <= stat["cs"].n
    /\ Done => stat["cd"].n = stat["cs"].n

\* pre_decoder has emitted the pair of the last line of the first chunk, a
\* chunk of several lines, while a second chunk follows it in the input
C13_Witness ==
    /\ cd # <<>> /\ cd[1].ck = 1 /\ cd[1].last
    /\ LineIndex("cd", 1) >= 2
    /\ Len(chunks) = 2
    /\ \E b \in 0..(WI - 1) : ChunkLine(2, 1)[b] # 0

\* the number of leading bytes of bs, from index i on, that have bit 7 set
RECURSIVE LeadingHigh(_, _)
LeadingHigh(bs, i) ==
    IF i > Len(bs) THEN 0 ELSE IF bs[i] < 128 THEN 0 ELSE 1 + LeadingHigh(bs, i + 1)

\* the byte length of the length varint of the k-th chunk
VarintLen(k) == 1 + LeadingHigh(chunks[k], 1)

\* the first-line properties of chunk k: the CompressedDouble with first has
\* start = 1 + (leading bytes with bit 7 set), its constructor did not reject
\* the start index, and the decoder's iteration that pulled it began to parse
\* at that index
FirstLineStart(k) ==
    /\ \A i \in 1..Len(cd) : (cd[i].ck = k /\ cd[i].first) => cd[i].start = VarintLen(k)
    /\ ~(err = "AssertionError: is_unsigned(cd.start, 2)" /\ pre.cur.ck = k)
    /\ (dec.pull /\ dec.cdh.first /\ dec.cdh.ck = k) => dec.at = VarintLen(k)

DecoderReady == err = "none" /\ el_demand /\ (dec.cdh_valid \/ cd # <<>>)

\* the line pair and the parse position of that iteration
DecoderLine == IF dec.cdh_valid THEN dec.cdh ELSE Head(cd)
DecoderOff  == IF ~dec.cdh_valid /\ Head(cd).first THEN Head(cd).start ELSE dec.off

\* the parse position is in the valid range of the line and holds a tag with
\* low bits 11, or the literal header the iteration looks at (at the parse
\* position, or right after the copy element there) is in the valid range
\* and has a length code above 61
BadElement(off, cdh) ==
    LET tag == cdh.data[off % WI] % 4
        lit == IF tag = 1 THEN off + 2 ELSE IF tag = 2 THEN off + 3 ELSE off
    IN  /\ off <= cdh.endi
        /\ \/ tag = 3
           \/ /\ lit <= cdh.endi
              /\ cdh.data[lit] % 4 = 0
              /\ cdh.data[lit] \div 4 > 61

\* C15: an iteration of the decoder raises ValueError('oh_snap'), and emits
\* no Element, exactly when its parse position is in the valid range on an
\* element with tag 11 or the literal header it looks at has a length code
\* above 61; the decoder raises no error for a well-formed chunk.
C15_OhSnap ==
    /\ [][DecoderReady =>
            /\ BadElement(DecoderOff, DecoderLine) <=> err' = "ValueError: oh_snap"
            /\ BadElement(DecoderOff, DecoderLine) => (el' = <<>> /\ stat' = stat)]_vars
    /\ [](chunks \in Inputs => err # "ValueError: oh_snap")

\* the decoder has raised the error after it emitted Elements of the chunk
C15_Witness ==
    /\ err = "ValueError: oh_snap"
    /\ stat["el"].n >= 2
    /\ el = <<>>

\* the elements bs of a chunk, of which n bytes were produced before them,
\* hold a copy whose offset is larger than the number of bytes produced
\* before it
RECURSIVE Underflows(_, _)
Underflows(bs, n) ==
    IF bs = <<>> THEN FALSE
    ELSE LET b == bs[1]
             t == b \div 4
         IN  IF b % 4 = 0 THEN
                 LET hd == IF t < 60 THEN 1 ELSE IF t = 60 THEN 2 ELSE 3
                     m  == IF t < 60 THEN t + 1
                           ELSE IF t = 60 THEN bs[2] + 1
                           ELSE bs[2] + 256 * bs[3] + 1
                 IN  Underflows(SubSeq(bs, hd + m + 1, Len(bs)), n + m)
             ELSE IF b % 4 = 1 THEN
                 \/ ((b \div 32) % 8) * 256 + bs[2] > n
                 \/ Underflows(SubSeq(bs, 3, Len(bs)), n + ((b \div 4) % 8) + 4)
             ELSE
                 \/ bs[2] + 256 * bs[3] > n
                 \/ Underflows(SubSeq(bs, 4, Len(bs)), n + ((b \div 4) % 64) + 1)

\* C16: of a chunk with a copy whose offset reaches back beyond the bytes
\* already produced in the chunk the pipeline emits no closing record: it
\* stops with an error before it has emitted the chunk's bytes.
C16_UnderflowReported ==
    \A k \in 1..Len(chunks) : Underflows(SkipVarint(chunks[k]), 0) =>
        \A i \in 1..Len(ChunkRecs(k)) : ~ChunkRecs(k)[i].last

\* the number of bytes of the element with tag byte b: 0 for a literal tag
CopySize(b) == IF b % 4 = 1 THEN 2 ELSE IF b % 4 = 2 THEN 3 ELSE 0

\* the number of bytes of the literal header with tag byte b
HeaderSize(b) == IF b \div 4 = 60 THEN 2 ELSE IF b \div 4 = 61 THEN 3 ELSE 1

C18_CopyInOneCycle ==
    /\ \A i \in 1..Len(c1) : c1[i].cp_len >= -1 /\ c1[i].cp_len <= WI - 1
    /\ cg2.cp_len = -1
    /\ \A i \in 1..Len(cm) :
          /\ cm[i].cp_end - cm[i].py_start \in {0, cg2.c1h.cp_len + 1}
          /\ cm[i].cp_end - cm[i].py_start <= WI

\* cmd_gen_2 has emitted a command that carries a whole partial copy of WI
\* bytes, one of several partial commands of a copy element
C18_Witness ==
    /\ cm # <<>>
    /\ cm[1].cp_end - cm[1].py_start = WI
    /\ cg2.c1h.cp_len = WI - 1
    /\ stat["c1"].n > stat["el"].n

\* C19: whatever Elements cmd_gen_1 is handed, the assertion
\* 'elh_cp_off < WI' of the offset-doubling step never fails: cmd_gen_1
\* changes its copy offset only for an Element whose cp_off is between 2 and
\* WI-1, and the changed offset stays below 2*WI.
C19_DoublingGuard ==
    /\ err # "AssertionError: elh_cp_off < WI"
    /\ cg1.elh_cp_off # cg1.elh.cp_off =>
          /\ cg1.elh.cp_off >= 2 /\ cg1.elh.cp_off <= WI - 1
          /\ cg1.elh_cp_off < 2 * WI

\* cmd_gen_1 has doubled the offset 2 of the second Element it was handed
\* twice, and goes on with that copy
C19_Witness ==
    /\ stat["el"].n = 2
    /\ cg1.elh_valid /\ cg1.elh.cp_off = 2 /\ cg1.elh_cp_off = 8
    /\ cg1.cp_rem >= WI
    /\ c1 # <<>>

\* the record with chunk number ck that a stage pulls belongs to a chunk up
\* to the one after the last chunk the stage has closed on stream name
PulledInOrder(ck, name) == ck <= stat[name].last + 1

\* C20: every record a stage has asked for or holds belongs to a chunk not
\* later than the one after the chunks for which the stage has emitted its
\* record with last; and when cmd_gen_2 has released a partial command with
\* last, it has no copy or literal bytes left to write.
C20_ChunkOrder ==
    /\ \A i \in 1..Len(cs) : PulledInOrder(cs[i].ck, "cd")
    /\ \A i \in 1..Len(cd) : PulledInOrder(cd[i].ck, "el")
    /\ \A i \in 1..Len(el) : PulledInOrder(el[i].ck, "c1")
    /\ \A i \in 1..Len(c1) : PulledInOrder(c1[i].ck, "cm")
    /\ \A i \in 1..Len(cm) : PulledInOrder(cm[i].ck, "de")
    /\ PulledInOrder(pre.cur.ck, "cd")
    /\ \A i \in 1..Len(pre.prev) : PulledInOrder(pre.prev[i].ck, "cd")
    /\ PulledInOrder(dec.cdh.ck, "el")
    /\ PulledInOrder(cg1.elh.ck, "c1")
    /\ PulledInOrder(cg2.c1h.ck, "cm")
    /\ PulledInOrder(dpath.cm.ck, "de")
    /\ (~cg2.c1h_valid /\ cg2.c1h.last) =>
          (cg2.cp_len < 0 /\ cg2.li_len < 0 /\ ~cg2.c1_pend)

\* every stage holds a record of the second chunk, after a first chunk of
\* several lines has been closed by every stage
C20_Witness ==
    /\ Len(chunks) = 2 /\ Len(chunks[1]) > WI
    /\ pre.cur.ck = 2 /\ dec.cdh.ck = 2 /\ cg1.elh.ck = 2 /\ cg2.c1h.ck = 2 /\ dpath.cm.ck = 2
    /\ stat["de"].last = 1

\* C21: the end of the input never becomes a raised error: when data_source
\* is exhausted after a chunk's last record, no stage turns the end of its
\* input stream into an exception.
C21_CleanEnd == err # "RuntimeError: generator raised StopIteration"

\* C22 as stated: when cmd_gen_2 has just emitted a Command with last, its
\* off, lt_cnt and li_off are 0 and its cp_len and li_len are -1.
C22_StateReset ==
    \A i \in 1..Len(cm) : cm[i].last =>
        /\ cg2.off = 0 /\ cg2.lt_cnt = 0
        /\ cg2.cp_len = -1 /\ cg2.li_len = -1
        /\ cg2.li_off = 0

\* C22, amended: when cmd_gen_2 has just emitted a Command with last, its
\* off and lt_cnt are 0, its cp_len and li_len are -1 and it holds no partial
\* command; li_off is not reset: it is left at its value minus WI, which is
\* 0 or negative.
C22_StateResetButLiOff ==
    \A i \in 1..Len(cm) : cm[i].last =>
        /\ cg2.off = 0 /\ cg2.lt_cnt = 0
        /\ cg2.cp_len = -1 /\ cg2.li_len = -1
        /\ ~cg2.c1h_valid /\ ~cg2.c1_pend
        /\ cg2.li_off <= 0

\* cmd_gen_2 has emitted the Command with last of a chunk that decompresses to
\* more than one line and is left with a negative li_off
C22_Witness ==
    /\ cm # <<>> /\ cm[1].last
    /\ chunks[cm[1].ck][1] > WI
    /\ cg2.li_off < 0
    /\ cg2.off = 0 /\ cg2.lt_cnt = 0

\* byte q, from 0, of the compressed chunk k; 0 beyond its end
Raw(k, q) == IF q + 1 <= Len(chunks[k]) THEN chunks[k][q + 1] ELSE 0

\* C23: the Element the decoder emits matches the raw Snappy bytes of its
\* chunk at the parse position p: it has a copy exactly when the byte b at p
\* is in the valid range with tag 01 or 10; tag 01 gives length
\* ((b>>2)&7)+4 and offset ((b>>5)&7)<<8 | next byte from 2 bytes, tag 10
\* gives length ((b>>2)&63)+1 and offset = next two bytes little-endian from
\* 3 bytes; the literal header h right after has length t+1 in 1 byte for
\* t < 60, next byte + 1 in 2 bytes for t = 60, 16 bit little-endian + 1 in 3
\* bytes for t = 61; cp_len and li_len are diminished-one, li_off is the
\* position of the first literal byte, and the bytes come from the chunk also
\* where they lie past the W-byte line boundary.
C23_ElementFormat ==
    \A i \in 1..Len(el) :
        LET r    == el[i]
            k    == r.ck
            base == (LineIndex("cd", k) - 1) * WI
            p    == base + dec.at
            b    == Raw(k, p)
            tag  == b % 4
            cpsz == IF r.cp_val THEN (IF tag = 1 THEN 2 ELSE 3) ELSE 0
            q    == p + cpsz
            h    == Raw(k, q)
            t    == h \div 4
            hd   == IF t < 60 THEN 1 ELSE IF t = 60 THEN 2 ELSE 3
        IN  /\ (dec.at < WI /\ p < Len(chunks[k])) => (r.cp_val <=> tag \in {1, 2})
            /\ r.cp_val => (dec.at < WI /\ p < Len(chunks[k]))
            /\ (r.cp_val /\ tag = 1) =>
                  (/\ r.cp_len + 1 = ((b \div 4) % 8) + 4
                   /\ r.cp_off = ((b \div 32) % 8) * 256 + Raw(k, p + 1))
            /\ (r.cp_val /\ tag = 2) =>
                  (/\ r.cp_len + 1 = ((b \div 4) % 64) + 1
                   /\ r.cp_off = Raw(k, p + 1) + 256 * Raw(k, p + 2))
            /\ (dec.at + cpsz < WI /\ q < Len(chunks[k])) => (r.li_val <=> h % 4 = 0)
            /\ r.li_val =>
                  (/\ q < Len(chunks[k])
                   /\ t <= 61
                   /\ r.li_len + 1 = (IF t < 60 THEN t + 1
                                      ELSE IF t = 60 THEN Raw(k, q + 1) + 1
                                      ELSE Raw(k, q + 1) + 256 * Raw(k, q + 2) + 1)
                   /\ base + r.li_off = q + hd
                   /\ base + dec.off + (IF dec.cdh_valid THEN 0 ELSE WI)
                         = q + hd + r.li_len + 1)
            /\ ~r.li_val => base + dec.off + (IF dec.cdh_valid THEN 0 ELSE WI) = q

\* the decoder has emitted an Element with a copy and a literal whose 3-byte
\* header starts on the last byte of a line and ends in the look-ahead half
C23_Witness ==
    /\ el # <<>>
    /\ el[1].cp_val /\ el[1].cp_off = 2 /\ el[1].cp_len = 4
    /\ el[1].li_val /\ el[1].li_len = 256 /\ el[1].li_off = WI + 2

\* the number of bytes of the copy of the element cmd_gen_1 holds that went
\* out before the partial command p, the newest one
CopiedBefore(p) == cg1.elh.cp_len - cg1.cp_rem - (p.cp_len + 1)

\* C24: for a copy element with offset K >= 2, every PartialCommand has
\* cp_off = K * 2^j for some j >= 0, copies at most cp_off bytes, and at
\* least K * (2^j - 1) bytes of the same copy went out before it, so that
\* cp_off never exceeds K plus the bytes of the copy already written.
C24_DoubledOffset ==
    \A i \in 1..Len(c1) :
        LET p == c1[i]
            K == cg1.elh.cp_off
        IN  (cg1.elh.cp_val /\ K >= 2) =>
                /\ ~p.cp_rle
                /\ p.cp_len + 1 <= p.cp_off
                /\ \E j \in 0..3 :
                      /\ p.cp_off = K * Pow2(j)
                      /\ CopiedBefore(p) >= K * (Pow2(j) - 1)
                /\ p.cp_off <= K + CopiedBefore(p)

\* cmd_gen_1 has emitted a partial command at four times the offset of its
\* copy element
C24_Witness ==
    /\ c1 # <<>>
    /\ cg1.elh.cp_val /\ cg1.elh.cp_off = 2
    /\ c1[1].cp_off = 8 /\ c1[1].cp_len = WI - 1
    /\ CopiedBefore(c1[1]) = 6

\* C25: cp_rem is never below -1; when cmd_gen_1 has released an Element,
\* cp_rem is -1 and the copy bytes (cp_len + 1) of the partial commands it
\* emitted for it add up to the Element's copy length when it has a copy,
\* and it emitted exactly one partial command, with cp_len = -1, when it has
\* none; while it holds the Element, the bytes sent and the remainder add up
\* to the copy length.
C25_CopyBytesAddUp ==
    /\ cg1.cp_rem >= -1
    /\ (cg1.parts > 0 /\ ~cg1.elh_valid) =>
          /\ cg1.cp_rem = -1
          /\ cg1.elh.cp_val => cg1.sent = cg1.elh.cp_len + 1
          /\ ~cg1.elh.cp_val =>
                (/\ cg1.parts = 1 /\ cg1.sent = 0
                 /\ \A i \in 1..Len(c1) : c1[i].cp_len = -1)
    /\ (cg1.elh_valid /\ cg1.elh.cp_val) =>
          cg1.sent + cg1.cp_rem + 1 = cg1.elh.cp_len + 1

\* cmd_gen_1 has released a copy Element of 64 bytes at offset 3 after nine
\* partial commands
C25_Witness ==
    /\ ~cg1.elh_valid /\ cg1.elh.cp_val
    /\ cg1.elh.cp_len = 63 /\ cg1.elh.cp_off = 3
    /\ cg1.parts = 9 /\ cg1.sent = 64

\* C26: a PartialCommand after which cmd_gen_1 still holds its Element has
\* li_val, ld_pop and last false; the one after which the Element is released
\* carries the Element's li_val, ld_pop and last; the release comes after at
\* least one and at most as many partial commands as the Element has copy
\* bytes (one when it has no copy), and the next partial command belongs to
\* the next Element.
C26_FlagsOnFinal ==
    /\ [](\A i \in 1..Len(c1) :
            LET p == c1[i]
                e == cg1.elh
            IN  /\ cg1.elh_valid => (~p.li_val /\ ~p.ld_pop /\ ~p.last)
                /\ ~cg1.elh_valid =>
                      (p.li_val = e.li_val /\ p.ld_pop = e.ld_pop /\ p.last = e.last)
                /\ cg1.parts >= 1
                /\ cg1.parts <= (IF e.cp_val THEN e.cp_len + 1 ELSE 1))
    /\ [][(cg1' # cg1 /\ ~cg1.elh_valid) =>
            (cg1'.parts = 1 /\ el # <<>> /\ cg1'.elh = el[1])]_vars
    /\ [][(cg1' # cg1 /\ cg1.elh_valid) =>
            (cg1'.parts = cg1.parts + 1 /\ cg1'.elh = cg1.elh)]_vars

\* cmd_gen_1 has released, with its third partial command, an Element that
\* has a literal and pops the line
C26_Witness ==
    /\ c1 # <<>> /\ ~cg1.elh_valid
    /\ cg1.parts >= 3
    /\ c1[1].li_val /\ c1[1].ld_pop
    /\ cg1.elh.ld_pop

\* C27: for a copy Element with offset 1 and length L, every PartialCommand
\* has cp_rle set and cp_off = 1, every one but the final one copies WI
\* bytes, and the Element is released after ceil(L / WI) of them; the bytes
\* the datapath latches for the copy part of each of its Commands all equal
\* the byte that precedes the copy in the chunk, and with the final Command
\* there are L of them.
C27_RunLength ==
    LET e == cg1.elh
        L == cg1.elh.cp_len + 1
    IN  (cg1.parts > 0 /\ e.cp_val /\ e.cp_off = 1) =>
          /\ \A i \in 1..Len(c1) :
                /\ c1[i].cp_rle /\ c1[i].cp_off = 1
                /\ cg1.elh_valid => c1[i].cp_len + 1 = WI
          /\ ~cg1.elh_valid => cg1.parts = (L + WI - 1) \div WI
          /\ (cm # <<>> /\ dpath.pc = "top" /\ cm[1].cp_end > cm[1].py_start) =>
                LET c     == cm[1]
                    n     == c.cp_end - c.py_start
                    mux   == MuxData(dpath, c)
                    held  == [i \in 1..c.py_start |-> dpath.oh_data[i - 1]]
                    prior == CurrentChunk(out) \o held
                    new   == [i \in 1..n |-> mux[(c.py_start + i - 1) % WI]]
                    Q     == Len(prior) - (cg1.sent - n)
                IN  /\ c.cp_rle
                    /\ Q >= 1
                    /\ \A j \in (Q + 1)..Len(prior) : prior[j] = prior[Q]
                    /\ \A j \in 1..n : new[j] = prior[Q]
                    /\ ~cg1.elh_valid => Len(prior) + n - Q = L

\* the datapath is about to execute the final Command of a run-length copy
\* of 17 bytes that began in the middle of a line
C27_Witness ==
    /\ cm # <<>> /\ dpath.pc = "top"
    /\ cm[1].cp_rle /\ cm[1].cp_end > cm[1].py_start
    /\ cg1.elh.cp_val /\ cg1.elh.cp_off = 1 /\ cg1.elh.cp_len = 16
    /\ ~cg1.elh_valid /\ cg1.parts = 3 /\ cg1.sent = 17
    /\ Len(CurrentChunk(out)) >= WI

\* C28: every Command has 0 <= py_start <= WI-1, py_start <= cp_end <=
\* li_end <= 2*WI-1 and li_end - py_start <= WI, so that its literal bytes are
\* at most WI minus its copy bytes; cmd_gen_2's off is in 0..WI-1 and its
\* li_len at least -1 whenever it is suspended.
C28_CommandRanges ==
    /\ \A i \in 1..Len(cm) :
          LET c == cm[i]
          IN  /\ 0 <= c.py_start /\ c.py_start <= WI - 1
              /\ c.py_start <= c.cp_end /\ c.cp_end <= c.li_end
              /\ c.li_end <= 2 * WI - 1
              /\ c.li_end - c.py_start <= WI
              /\ c.li_end - c.cp_end <= WI - (c.cp_end - c.py_start)
    /\ cg2.off >= 0 /\ cg2.off <= WI - 1
    /\ cg2.li_len >= -1

\* a Command that fills a whole line with a copy and a literal and spills
\* over the end of the line
C28_Witness ==
    /\ cm # <<>>
    /\ cm[1].py_start > 0
    /\ cm[1].cp_end > cm[1].py_start /\ cm[1].li_end > cm[1].cp_end
    /\ cm[1].li_end - cm[1].py_start = WI
    /\ cg2.li_len >= 0

\* C29: when the datapath is about to execute a Command, its wr_ptr equals
\* the lt_cnt cmd_gen_2 began with when it built that Command, and both are
\* the number of output lines of the current chunk that are complete; after
\* a Command with last, cmd_gen_2's lt_cnt is 0 when it has built it and the
\* datapath's wr_ptr is 0 when it has executed it.
C29_LineCounters ==
    /\ (cm # <<>> /\ dpath.pc = "top") =>
          /\ dpath.wr_ptr = cg2.lt_was
          /\ dpath.wr_ptr * WI = Len(CurrentChunk(out \o de))
    /\ \A i \in 1..Len(cm) : cm[i].last => cg2.lt_cnt = 0
    /\ (dpath.pc = "top" /\ dpath.cm.last) => dpath.wr_ptr = 0

\* the datapath is about to execute a Command of the second chunk after
\* three lines of it, the first chunk having had lines of its own
C29_Witness ==
    /\ cm # <<>> /\ dpath.pc = "top"
    /\ cm[1].ck = 2
    /\ dpath.wr_ptr = 3 /\ cg2.lt_was = 3
    /\ \E i \in 1..Len(out) : out[i].ck = 1 /\ ~out[i].last

\* the number of output bytes written to column b so far: those of the
\* records emitted and the one held for the line that is being filled
ColumnBytes(b) ==
    Cardinality({i \in 1..Len(out \o de) : (out \o de)[i].cnt > b})
        + (IF dpath.oh_valid[b] THEN 1 ELSE 0)

\* C30: when the datapath is about to execute a Command, oh_valid[idx] =
\* (idx < py_start) for every idx in 0..WI-1; executing a Command leaves
\* every byte that was held as it was; and between Commands every column of
\* short-term memory has been pushed once for every output byte written to
\* that column (the push pointer counts modulo SRL_DEPTH).
C30_HoldingRegister ==
    /\ []((cm # <<>> /\ dpath.pc = "top") =>
            \A b \in Bytes : dpath.oh_valid[b] = (b < cm[1].py_start))
    /\ [][dpath.pc = "top" =>
            \A b \in Bytes : dpath.oh_valid[b] =>
                (dpath'.oh_data[b] = dpath.oh_data[b] \/ ~dpath'.oh_valid[b])]_vars
    /\ [](dpath.pc = "top" =>
            \A b \in Bytes : (-dpath.st[b].ptr) % SRL_DEPTH = ColumnBytes(b) % SRL_DEPTH)

\* the datapath is about to execute a Command that starts in the middle of a
\* line, after more lines than short-term memory holds
C30_Witness ==
    /\ cm # <<>> /\ dpath.pc = "top"
    /\ cm[1].py_start = 3
    /\ dpath.oh_valid[2] /\ ~dpath.oh_valid[3]
    /\ ColumnBytes(2) > SRL_DEPTH

\* C31: a Command has lt_val exactly when it writes a copy and the line of
\* the copy's first source byte, relative to the line being written, is
\* below -31; and for a copy served from short-term memory, the SRL read of
\* the column of every source byte that is needed, at index st_addr - cpl +
\* oh_valid, yields the byte of the chunk at that source position.
C31_ShortOrLongTerm ==
    (cm # <<>> /\ dpath.pc = "top") =>
        LET c     == cm[1]
            n     == c.cp_end - c.py_start
            K     == cg2.c1h.cp_off
            held  == [i \in 1..c.py_start |-> dpath.oh_data[i - 1]]
            prior == CurrentChunk(out) \o held
            P0    == Len(prior)
            line  == (c.py_start - K) \div WI
        IN  /\ c.lt_val <=> (n > 0 /\ line < -31)
            /\ (n > 0 /\ ~c.lt_val) =>
                  \A j \in 0..(n - 1) :
                     LET byte == (c.py_start + j) % WI
                         col  == (RolSel(c, byte) + byte) % WI
                         sp   == IF c.cp_rle THEN P0 - 1 ELSE P0 + j - K
                     IN  /\ sp >= 0 /\ sp < P0
                         /\ sp % WI = col
                         /\ CpSel(c, col) \in {0, 1}
                         /\ StData(dpath, c, col) = prior[sp + 1]

\* a copy from short-term memory whose source bytes lie in two lines, the
\* later of them still in the holding register
C31_Witness ==
    /\ cm # <<>> /\ dpath.pc = "top"
    /\ ~cm[1].lt_val /\ ~cm[1].cp_rle
    /\ cm[1].cp_end - cm[1].py_start >= 4
    /\ cm[1].py_start > 0
    /\ cg2.c1h.cp_off > cm[1].py_start /\ cg2.c1h.cp_off < cm[1].py_start + 3
    /\ Len(CurrentChunk(out)) >= 2 * WI

\* the long-term line address of a Command, from its bank addresses
LtAddr(c) == IF c.lt_swap THEN 2 * c.lt_adod + 1 ELSE 2 * c.lt_adev

\* line a, from 0, of the bytes bs, zero after their end
LineOf(bs, a) == [b \in Bytes |-> IF a * WI + b + 1 <= Len(bs) THEN bs[a * WI + b + 1] ELSE 0]

\* C32: when the datapath is about to execute a Command with lt_val,
\* lt_addr is cmd_gen_2's line count plus the relative source line, 0 <=
\* lt_addr and lt_addr + 1 < wr_ptr, the two bank reads are the lines lt_addr
\* and lt_addr + 1, and both hold the lines of that index of the current
\* chunk; so the line written next, at wr_ptr, takes long-term bytes only
\* from lines below it.
C32_LongTermReads ==
    (cm # <<>> /\ dpath.pc = "top" /\ cm[1].lt_val) =>
        LET c  == cm[1]
            a  == LtAddr(c)
            bs == CurrentChunk(out)
        IN  /\ a = cg2.lt_was + ((c.py_start - cg2.c1h.cp_off) \div WI)
            /\ 0 <= a /\ a + 1 < dpath.wr_ptr
            /\ {2 * c.lt_adev, 2 * c.lt_adod + 1} = {a, a + 1}
            /\ a + 2 <= Len(dpath.lt)
            /\ LtRead(dpath.lt, a) = LineOf(bs, a)
            /\ LtRead(dpath.lt, a + 1) = LineOf(bs, a + 1)

\* a Command reads the long-term lines at an odd address, 34 or more lines
\* into its chunk
C32_Witness ==
    /\ cm # <<>> /\ dpath.pc = "top" /\ cm[1].lt_val
    /\ cm[1].lt_swap
    /\ LtAddr(cm[1]) >= 1
    /\ dpath.wr_ptr >= 34

\* C33: for every line address lt_addr from 0 to 2^(16-WB) - 2, the Command
\* has {2 * lt_adev, 2 * lt_adod + 1} = {lt_addr, lt_addr + 1} and lt_swap =
\* lt_addr mod 2, and the copy source the datapath selects in every column
\* is that column of line lt_addr where the lookahead bit cpl is false and
\* of line lt_addr + 1 where it is true.
C33_BankAddresses ==
    (cm # <<>> /\ dpath.pc = "top" /\ cm[1].lt_val) =>
        LET c == cm[1]
            a == cg2.lt_was + ((c.py_start - cg2.c1h.cp_off) \div WI)
        IN  (0 <= a /\ a <= Pow2(16 - WB) - 2) =>
                /\ {2 * c.lt_adev, 2 * c.lt_adod + 1} = {a, a + 1}
                /\ c.lt_swap = (a % 2 = 1)
                /\ \A col \in Bytes :
                      /\ CpSel(c, col) = (IF StLa(c, col) # c.lt_swap THEN 3 ELSE 2)
                      /\ CpData(dpath, c, col) =
                            LtRead(dpath.lt, a + B2I(StLa(c, col)))[col]
                      /\ chunks = <<>> =>
                            CpData(dpath, c, col) = TagLine(a + B2I(StLa(c, col)))[col]

\* the datapath is about to copy from the last two lines of long-term
\* memory, some columns from the one and some from the other
C33_Witness ==
    /\ cm # <<>> /\ dpath.pc = "top" /\ cm[1].lt_val
    /\ cm[1].lt_swap = FALSE
    /\ 2 * cm[1].lt_adev = LT_LINES - 2 /\ 2 * cm[1].lt_adod + 1 = LT_LINES - 1
    /\ StLa(cm[1], 0) /\ ~StLa(cm[1], 7)

\* the record cmd_gen_2 works on in its next iteration, and whether that
\* record has a copy or a literal that was not taken up yet
Cg2Record == IF cg2.c1h_valid THEN cg2.c1h ELSE Head(c1)
Cg2Waiting == IF cg2.c1h_valid THEN cg2.c1_pend ELSE (Head(c1).cp_len >= 0 \/ Head(c1).li_val)

\* C34: in an iteration of cmd_gen_2 that begins with literal bytes pending
\* (li_len >= 0) and a record whose copy or literal is waiting, the record
\* stays held with c1_pend set, the Command has no copy bytes, and its
\* literal bytes are taken off the pending literal; in one that begins with
\* none pending, the waiting record is taken up: the Command has the copy
\* bytes of the record, then literal bytes of the record's own literal.
C34_LiftWhenIdle ==
    [][(err = "none" /\ cm_demand /\ (cg2.c1h_valid \/ c1 # <<>>) /\ cm' # <<>> /\ Cg2Waiting) =>
        LET c == cm'[1]
            r == Cg2Record
        IN  IF cg2.li_len >= 0
            THEN /\ cg2'.c1h_valid /\ cg2'.c1_pend
                 /\ ~c.ld_pop /\ ~c.last
                 /\ c.cp_end = c.py_start
                 /\ cg2'.li_len = cg2.li_len - (c.li_end - c.cp_end)
                 /\ cg2'.li_off = cg2.li_off + (c.li_end - c.cp_end)
            ELSE /\ ~cg2'.c1_pend
                 /\ c.cp_end - c.py_start = r.cp_len + 1
                 /\ r.li_val =>
                       cg2'.li_len = r.li_len - (c.li_end - c.cp_end)
                 /\ ~r.li_val => c.li_end = c.cp_end]_vars

\* cmd_gen_2 has written the rest of a literal while it holds the next
\* record, which brings a copy
C34_Witness ==
    /\ cm # <<>> /\ cm[1].li_end > cm[1].cp_end
    /\ cm[1].cp_end = cm[1].py_start
    /\ cg2.c1h_valid /\ cg2.c1_pend /\ cg2.li_len = -1
    /\ cg2.c1h.cp_len >= 0

\* C35: when the run with the variant of cmd_gen_2 has stopped, its
\* Decompressed records give the same bytes for every chunk as those of the
\* run with cmd_gen_2 as it is.
C35_SameBytes ==
    (~FirstRun /\ Halted) =>
        /\ SplitByLast(out, <<>>) = SplitByLast(stat["capped"].out, <<>>)
        /\ FlatBytes(out) = FlatBytes(stat["capped"].out)

\* C36: when cmd_gen_2 has released a record while literal bytes remain
\* (li_len >= 0), the record and the Command have ld_pop, li_off after the
\* subtraction of WI is in 0..WI-1, and it is the place, in the line that the
\* pop brings in, of the literal byte that the output needs next.
C36_LiteralRebase ==
    (cm # <<>> /\ dpath.pc = "top" /\ ~cg2.c1h_valid /\ cg2.li_len >= 0) =>
        LET c    == cm[1]
            k    == c.ck
            P    == dpath.wr_ptr * WI + c.li_end
            pops == stat["cm"].pop - LinesBefore(k)
        IN  /\ c.ld_pop /\ cg2.c1h.ld_pop
            /\ 0 <= cg2.li_off /\ cg2.li_off <= WI - 1
            /\ P + 1 <= Len(RefDecode(chunks[k]))
            /\ Raw(k, pops * WI + cg2.li_off) = RefDecode(chunks[k])[P + 1]

\* cmd_gen_2 has released the record of a literal in the second line of a
\* chunk with bytes of it left, after it wrote some of them
C36_Witness ==
    /\ cm # <<>> /\ dpath.pc = "top" /\ ~cg2.c1h_valid /\ cg2.li_len >= 0
    /\ cm[1].li_end > cm[1].cp_end
    /\ cg2.li_off > 0
    /\ stat["cm"].pop - LinesBefore(cm[1].ck) >= 2

\* the datapath has executed a Command with last and li_end > WI
SpillLast == dpath.cm.last /\ dpath.cm.li_end > WI

C38_DecoderIndices ==
    /\ DecoderReady =>
          LET reads == DecoderStep(DecoderOff, DecoderLine).reads
          IN  /\ reads \subseteq DOMAIN DecoderLine.data
              /\ reads \subseteq 0..(WI + 1)
              /\ DOMAIN DecoderLine.data = 0..(2 * WI - 1)
    /\ \A i \in 1..Len(el) :
          el[i].li_val => /\ 1 <= el[i].li_off /\ el[i].li_off <= WI + 2
                          /\ is_unsigned(el[i].li_off, 4)

\* the decoder has parsed a copy in bytes WI-3 and WI-2 and, after it, a
\* three-byte literal header that starts in the last byte of the line and
\* is read at the indices WI-1, WI and WI+1: li_off = WI+2
C38_Witness ==
    /\ el # <<>> /\ el[1].li_val /\ el[1].li_off = WI + 2
    /\ el[1].cp_val /\ dec.at = WI - 3 /\ el[1].li_len = 256

-----------------------------------------------------------------------------
(* verifier alone, on a data stream that may hold anything a Decompressed  *)
(* record can hold.                                                        *)

\* the expected chunks: what the compressed chunks of the test data were made
\* from
uncompressed == [k \in 1..Len(chunks) |-> RefDecode(chunks[k])]

\* test data of no chunk, of one and of two chunks, of 0, 3, 8 and 11 bytes
VerifierInputs ==
    LET ess == {<<>>, <<Lit(3)>>, <<Lit(8)>>, <<Lit(8), Lit(3)>>}
    IN  {<<>>} \cup {<<EncodeChunk(a, Salt(1))>> : a \in ess}
        \cup {<<EncodeChunk(a, Salt(1)), EncodeChunk(b, Salt(2))>> : a \in ess, b \in ess}

\* the transfers the data stream may deliver next: any cnt and last the
\* record admits, with the bytes that are expected next or with a first
\* byte that differs
Offered(v, exp) ==
    LET chunk == IF v.k <= Len(exp) THEN exp[v.k] ELSE <<>>
        right == [i \in Bytes |-> IF v.idx + i + 1 <= Len(chunk) THEN chunk[v.idx + i + 1] ELSE 0]
        wrong == [i \in Bytes |-> IF i = 0 THEN (right[0] + 1) % 256 ELSE right[i]]
    IN  {r \in {DecompressedStream(d, l, c, v.k) : d \in {right, wrong}, l \in BOOLEAN, c \in 0..WI} :
            DecompressedStream_assert(r) = "none"}

\* chunk[idx:idx+WI]
ExpectedSlice(chunk, idx) == SubSeq(chunk, idx + 1, Min(idx + WI, Len(chunk)))

\* verifier from where it is resumed to where it yields, raises or returns.
\* inp: what the data stream delivers when asked, <<>> for StopIteration;
\* pep479: the interpreter turns a StopIteration raised inside a generator
\* into a RuntimeError (Python 3.7 and later)
VerifierStep(v, exp, inp, pep479) ==
    LET seen == v.seen \o inp
        stop == [v EXCEPT !.eos = TRUE]
    IN  IF v.k <= Len(exp)
        THEN LET chunk == exp[v.k]
             IN  IF inp # <<>>
                 THEN LET t   == inp[1]
                          got == [v EXCEPT !.transfer = inp, !.seen = seen]
                          idx == v.idx + t.cnt
                      IN  IF RecBytes(t) # ExpectedSlice(chunk, v.idx)
                          THEN [v |-> got, raise |-> "ValueError: data mismatch", yield |-> <<>>]
                          ELSE IF ~t.last
                          THEN [v |-> [got EXCEPT !.idx = idx], raise |-> "none", yield |-> inp]
                          ELSE IF idx < Len(chunk)
                          THEN [v |-> got, raise |-> "ValueError: missing data in chunk",
                                yield |-> <<>>]
                          ELSE IF idx > Len(chunk)
                          THEN [v |-> got, raise |-> "ValueError: spurious data in chunk",
                                yield |-> <<>>]
                          ELSE [v |-> [got EXCEPT !.k = v.k + 1, !.idx = 0], raise |-> "none",
                                yield |-> inp]
                 \* the for loop over the data stream ends
                 ELSE IF v.idx < Len(chunk)
                      THEN [v |-> stop, raise |-> "ValueError: missing data in chunk",
                            yield |-> <<>>]
                      ELSE IF v.idx > Len(chunk)
                      THEN [v |-> stop, raise |-> "ValueError: spurious data in chunk",
                            yield |-> <<>>]
                      ELSE IF v.transfer = <<>>
                      THEN [v |-> stop, raise |-> "UnboundLocalError: transfer", yield |-> <<>>]
                      ELSE [v |-> [stop EXCEPT !.k = v.k + 1, !.idx = 0], raise |-> "none",
                            yield |-> v.transfer]
        \* after the last expected chunk: next(data_stream)
        ELSE IF inp # <<>>
             THEN [v |-> [v EXCEPT !.seen = seen], raise |-> "ValueError: spurious chunk",
                   yield |-> <<>>]
             ELSE IF pep479
             THEN [v |-> stop, raise |-> "RuntimeError: generator raised StopIteration",
                   yield |-> <<>>]
             ELSE [v |-> [stop EXCEPT !.done = TRUE], raise |-> "none", yield |-> <<>>]

verifier ==
    /\ err = "none"
    /\ ~ver.done
    /\ \E inp \in (IF ver.eos THEN {} ELSE {<<t>> : t \in Offered(ver, uncompressed)}) \cup {<<>>},
          pep479 \in BOOLEAN :
          LET s == VerifierStep(ver, uncompressed, inp, pep479)
          IN  /\ ver' = s.v
              /\ err' = s.raise
              /\ out' = out \o s.yield
    /\ UNCHANGED <<chunks, src, cs, pre, cd, dec, el, cg1, c1, cg2, cm, dpath, de, stat>>

NextVerifier == verifier

SpecVerifier == InitWith(VerifierInputs) /\ [][NextVerifier]_vars

\* verifier has returned or raised
VerifierEnded == ver.done \/ err # "none"

\* the data stream has delivered, chunk after chunk, transfers whose valid
\* bytes up to and including the first one with last make up the expected
\* chunk, and nothing more
StreamMatches ==
    /\ SplitByLast(ver.seen, <<>>) = uncompressed
    /\ ver.seen # <<>> => ver.seen[Len(ver.seen)].last

\* C39: verifier ends without raising exactly when the data stream matches
\* the expected chunks; it has raised a ValueError when the transfer it took
\* last differs in its valid bytes from the expected slice, when that
\* transfer has last set before the chunk is complete, and when it came
\* after the last expected chunk.
C39_VerifierVerdict ==
    VerifierEnded =>
        /\ (err = "none") <=> StreamMatches
        /\ (err # "none" /\ ~ver.eos) =>
              LET t == ver.transfer[1]
              IN  IF ver.k > Len(uncompressed)
                  THEN err = "ValueError: spurious chunk"
                  ELSE IF RecBytes(t) # ExpectedSlice(uncompressed[ver.k], ver.idx)
                  THEN err = "ValueError: data mismatch"
                  ELSE /\ t.last /\ ver.idx + t.cnt < Len(uncompressed[ver.k])
                       /\ err = "ValueError: missing data in chunk"

====
